---- MODULE Spec2Model ----
(***************************************************************************)
(* Model of gt4sd's GFlowNet molecule-building context                     *)
(* (gt4sd/frameworks/gflownet/envs/mol_building_env.py):                   *)
(* MolBuildingEnvContext, the codec between graph-building actions, index  *)
(* triples, tensor graphs (Data) and molecules.                            *)
(*                                                                         *)
(* Python values are modelled as follows.  Attribute values (element       *)
(* symbols, ChiralType and BondType members, charges, hydrogen counts and  *)
(* flags) are strings named after the Python value.  A dict is a function  *)
(* whose domain is its key set.  A list or a tensor row is a sequence; a   *)
(* 2 x k index tensor is the sequence of its k columns.  A raised          *)
(* exception is the record [exc |-> name]; None is NoneNode for a node     *)
(* field and NoneStr for an attribute field.                               *)
(*                                                                         *)
(* The module also models a run of PyTorchLightningTrainingPipeline.train  *)
(* (gt4sd/training_pipelines/pytorch_lightning/core.py), in the variable   *)
(* run and the specification SpecTrain.                                    *)
(*                                                                         *)
(* It also models extract_fields_from_class                                *)
(* (gt4sd/cli/load_arguments_from_dataclass.py) on a dataclass given by    *)
(* its Field objects, in the variable dataclass and the specification      *)
(* SpecFields.                                                             *)
(***************************************************************************)
EXTENDS Integers, Sequences, FiniteSets, TLC

VARIABLES ctx, g, data, call, mol, run, dataclass

vars == <<ctx, g, data, call, mol, run, dataclass>>

---------------------------------------------------------------------------
(* Bounds of the model *)

\* nodes + edges + attribute deviations of a graph (or molecule) under construction
MaxSize == 5

---------------------------------------------------------------------------
(* Python helpers *)

NoneNode == 0 - 1
NoneStr == "None"

Raise(e) == [exc |-> e]
IsRaise(r) == "exc" \in DOMAIN r

\* InRange of a language whose negative indices are out of range
InRange_NonNegative(seq, i) == 0 <= i /\ i < Len(seq)

\* seq[i] with Python's index rules: 0-based, negative indices count from the end
InRange(seq, i) == (0 - Len(seq)) <= i /\ i < Len(seq)
At(seq, i) == IF i < 0 THEN seq[Len(seq) + i + 1] ELSE seq[i + 1]

\* list.index(x): 0-based position of the first element equal to x
Contains(seq, x) == \E i \in 1..Len(seq) : seq[i] = x
IndexOf(seq, x) == (CHOOSE i \in 1..Len(seq) : seq[i] = x /\ \A j \in 1..(i - 1) : seq[j] # x) - 1

RECURSIVE SumSeq(_)
SumSeq(s) == IF s = << >> THEN 0 ELSE s[1] + SumSeq(Tail(s))

\* numpy.cumsum
CumSum(s) == [i \in 1..Len(s) |-> SumSeq(SubSeq(s, 1, i))]

RECURSIVE Flatten(_)
Flatten(ss) == IF ss = << >> THEN << >> ELSE ss[1] \o Flatten(Tail(ss))

\* the characters (code points) of the attribute names, which sorted() compares
KeyChars ==
  [v |-> <<118>>,
   chi |-> <<99, 104, 105>>,
   charge |-> <<99, 104, 97, 114, 103, 101>>,
   expl_H |-> <<101, 120, 112, 108, 95, 72>>,
   no_impl |-> <<110, 111, 95, 105, 109, 112, 108>>,
   type |-> <<116, 121, 112, 101>>]

RECURSIVE LexLess(_, _)
LexLess(a, b) ==
  IF b = << >> THEN FALSE
  ELSE IF a = << >> THEN TRUE
  ELSE IF a[1] # b[1] THEN a[1] < b[1]
  ELSE LexLess(Tail(a), Tail(b))

StrLess(a, b) == LexLess(KeyChars[a], KeyChars[b])

\* sorted(keys): insertion sort by string order
RECURSIVE Insert(_, _)
Insert(s, k) ==
  IF s = << >> THEN <<k>>
  ELSE IF StrLess(k, s[1]) THEN <<k>> \o s
  ELSE <<s[1]>> \o Insert(Tail(s), k)

RECURSIVE Sorted(_)
Sorted(s) == IF s = << >> THEN << >> ELSE Insert(Sorted(Tail(s)), s[1])

EmptyDict == [k \in {} |-> NoneStr]
DictSet(d, k, x) == [y \in (DOMAIN d) \cup {k} |-> IF y = k THEN x ELSE d[y]]

---------------------------------------------------------------------------
(* MolBuildingEnvContext.__init__ *)

Vocabularies == {<<"H", "C", "N", "O", "F">>, <<"C", "N", "O">>}

\* dict keys in insertion order
AtomAttrKeys == <<"v", "chi", "charge", "expl_H", "no_impl">>
BondAttrKeys == <<"type">>

atom_attr_values(atoms) ==
  [v |-> atoms,
   chi |-> <<"CHI_UNSPECIFIED", "CHI_TETRAHEDRAL_CW", "CHI_TETRAHEDRAL_CCW">>,
   charge |-> <<"0", "1", "-1">>,
   expl_H |-> <<"0", "1", "2", "3">>,
   no_impl |-> <<"False", "True">>]

bond_attr_values == [type |-> <<"SINGLE", "DOUBLE", "TRIPLE", "AROMATIC">>]

\* {k: values[k][0] for k in values}
attr_defaults(values) == [k \in DOMAIN values |-> values[k][1]]

\* sum(len(i) for i in values.values())
attr_size(values, keys) == SumSeq([i \in 1..Len(keys) |-> Len(values[keys[i]])])

\* [0] + list(np.cumsum([len(values[i]) for i in attrs]))
attr_slice(values, attrs) == <<0>> \o CumSum([i \in 1..Len(attrs) |-> Len(values[attrs[i]])])

\* attr_logit_slice over the full value lists, the default value counted
attr_logit_slice_CountsDefault(values, attrs) ==
  LET starts == <<0>> \o CumSum([i \in 1..Len(attrs) |-> Len(values[attrs[i]])])
  IN [k \in {attrs[i] : i \in 1..Len(attrs)} |-> starts[IndexOf(attrs, k) + 1]]

\* {k: s for k, s in zip(attrs, [0] + list(np.cumsum([len(values[i]) - 1 for i in attrs])))}
attr_logit_slice(values, attrs) ==
  LET starts == <<0>> \o CumSum([i \in 1..Len(attrs) |-> Len(values[attrs[i]]) - 1])
  IN [k \in {attrs[i] : i \in 1..Len(attrs)} |-> starts[IndexOf(attrs, k) + 1]]

\* attr_logit_map without the [1:] that skips the default value
attr_logit_map_WithDefault(values, attrs, skip) ==
  LET kept == SelectSeq(attrs, LAMBDA k : k \notin skip)
  IN Flatten([i \in 1..Len(kept) |->
               [j \in 1..Len(values[kept[i]]) |-> <<kept[i], values[kept[i]][j]>>]])

\* [(k, v) for k in attrs if k not in skip for v in values[k][1:]]
attr_logit_map(values, attrs, skip) ==
  LET kept == SelectSeq(attrs, LAMBDA k : k \notin skip)
  IN Flatten([i \in 1..Len(kept) |->
               [j \in 1..(Len(values[kept[i]]) - 1) |-> <<kept[i], values[kept[i]][j + 1]>>]])

action_type_order == <<"Stop", "AddNode", "SetNodeAttr", "AddEdge", "SetEdgeAttr">>

MolBuildingEnvContext(atoms) ==
  LET av == atom_attr_values(atoms)
      aa == Sorted(AtomAttrKeys)
      bv == bond_attr_values
      ba == Sorted(BondAttrKeys)
      amap == attr_logit_map(av, aa, {"v"})
      bmap == attr_logit_map(bv, ba, {})
  IN [atom_attr_values |-> av,
      atom_attr_defaults |-> attr_defaults(av),
      atom_attr_size |-> attr_size(av, AtomAttrKeys),
      atom_attrs |-> aa,
      atom_attr_slice |-> attr_slice(av, aa),
      atom_attr_logit_slice |-> attr_logit_slice(av, aa),
      atom_attr_logit_map |-> amap,
      bond_attr_values |-> bv,
      bond_attr_defaults |-> attr_defaults(bv),
      bond_attr_size |-> attr_size(bv, BondAttrKeys),
      bond_attrs |-> ba,
      bond_attr_slice |-> attr_slice(bv, ba),
      bond_attr_logit_slice |-> attr_logit_slice(bv, ba),
      bond_attr_logit_map |-> bmap,
      num_new_node_values |-> Len(atoms),
      num_node_attr_logits |-> Len(amap),
      num_node_dim |-> attr_size(av, AtomAttrKeys) + 1,
      num_edge_attr_logits |-> Len(bmap),
      num_edge_dim |-> attr_size(bv, BondAttrKeys),
      action_type_order |-> action_type_order]

---------------------------------------------------------------------------
(* Graph: the networkx graph (nodes 0..n-1 in insertion order, one attribute *)
(* dict per node, one adjacency list per node in insertion order, one        *)
(* attribute dict per undirected edge).                                      *)

EmptyGraph == [nodes |-> << >>, adj |-> << >>, eattr |-> [e \in {} |-> EmptyDict]]

NumNodes(G) == Len(G.nodes)

\* the key of the attribute dict shared by adj[u][v] and adj[v][u]
EdgeKey(u, w) == IF u <= w THEN <<u, w>> ELSE <<w, u>>

HasEdge(G, u, w) == EdgeKey(u, w) \in DOMAIN G.eattr

\* dict.update(attr)
DictUpdate(d, attr) == [k \in (DOMAIN d) \cup (DOMAIN attr) |-> IF k \in DOMAIN attr THEN attr[k] ELSE d[k]]

\* Graph.add_node(len(G), **attr)
NxAddNode(G, attr) ==
  [G EXCEPT !.nodes = Append(@, attr), !.adj = Append(@, << >>)]

\* Graph.add_edge(u, w, **attr) on existing nodes u # w
NxAddEdge(G, u, w, attr) ==
  IF HasEdge(G, u, w)
  THEN [G EXCEPT !.eattr[EdgeKey(u, w)] = DictUpdate(@, attr)]
  ELSE [G EXCEPT !.adj[u + 1] = Append(@, w),
                 !.adj[w + 1] = Append(@, u),
                 !.eattr = [e \in (DOMAIN @) \cup {EdgeKey(u, w)} |->
                              IF e = EdgeKey(u, w) THEN attr ELSE @[e]]]

\* G.edges: for each node n in order, each neighbour not yet seen as n
NxEdges(G) ==
  Flatten([i \in 1..NumNodes(G) |->
            LET later == SelectSeq(G.adj[i], LAMBDA nbr : nbr >= i - 1)
            IN [j \in 1..Len(later) |-> <<i - 1, later[j]>>]])

RECURSIVE AddEdgesFrom(_, _)
AddEdgesFrom(G, pairs) ==
  IF pairs = << >> THEN G
  ELSE AddEdgesFrom(NxAddEdge(G, pairs[1][1], pairs[1][2], EmptyDict), Tail(pairs))

\* NxComplement without the test "n2 not in G[n]": the complete graph on the nodes of G
NxComplement_AllPairs(G) ==
  LET n == NumNodes(G)
      R == [nodes |-> [i \in 1..n |-> EmptyDict], adj |-> [i \in 1..n |-> << >>],
            eattr |-> [e \in {} |-> EmptyDict]]
      pairs == Flatten([i \in 1..n |->
                 LET others == SelectSeq([j \in 1..n |-> j - 1], LAMBDA n2 : n2 # i - 1)
                 IN [j \in 1..Len(others) |-> <<i - 1, others[j]>>]])
  IN AddEdgesFrom(R, pairs)

\* nx.complement(G): same nodes (no data), an edge for every n, n2 with n2 not in G[n], n # n2
NxComplement(G) ==
  LET n == NumNodes(G)
      R == [nodes |-> [i \in 1..n |-> EmptyDict], adj |-> [i \in 1..n |-> << >>],
            eattr |-> [e \in {} |-> EmptyDict]]
      pairs == Flatten([i \in 1..n |->
                 LET others == SelectSeq([j \in 1..n |-> j - 1],
                                         LAMBDA n2 : ~HasEdge(G, i - 1, n2) /\ n2 # i - 1)
                 IN [j \in 1..Len(others) |-> <<i - 1, others[j]>>]])
  IN AddEdgesFrom(R, pairs)

---------------------------------------------------------------------------
(* graph_to_Data *)

\* some stored value of an attribute in attrs is not in its value list: list.index raises
BadValue(values, attrs, ad) ==
  \E p \in 1..Len(attrs) : attrs[p] \in DOMAIN ad /\ ~Contains(values[attrs[p]], ad[attrs[p]])

\* OneHotBits that sets no bit for an attribute the dict does not store
OneHotBits_SkipsAbsent(values, attrs, slice, ad) ==
  {slice[p] + IndexOf(values[attrs[p]], ad[attrs[p]]) :
     p \in {q \in 1..Len(attrs) : attrs[q] \in DOMAIN ad}}

\* the positions sl + idx set for one attribute dict, over zip(attrs, slice)
OneHotBits(values, attrs, slice, ad) ==
  {slice[p] + (IF attrs[p] \in DOMAIN ad THEN IndexOf(values[attrs[p]], ad[attrs[p]]) ELSE 0) :
     p \in 1..Len(attrs)}

\* NodeFeatures with len(g.nodes) rows, without the placeholder row of the empty graph
NodeFeatures_NoPlaceholder(c, G) ==
  [i \in 1..NumNodes(G) |->
    LET bits == OneHotBits(c.atom_attr_values, c.atom_attrs, c.atom_attr_slice, G.nodes[i])
    IN [j \in 1..c.num_node_dim |-> IF (j - 1) \in bits THEN 1 ELSE 0]]

\* NodeFeatures with atom_attr_size columns, none for the empty-graph indicator
NodeFeatures_AttrSizeColumns(c, G) ==
  LET n == NumNodes(G)
      rows == IF n > 1 THEN n ELSE 1
  IN [i \in 1..rows |->
       LET bits == IF i <= n
                   THEN OneHotBits(c.atom_attr_values, c.atom_attrs, c.atom_attr_slice, G.nodes[i])
                   ELSE {}
       IN [j \in 1..c.atom_attr_size |->
            IF (j - 1) \in bits THEN 1
            ELSE IF i = 1 /\ j = c.atom_attr_size /\ n = 0 THEN 1 ELSE 0]]

\* x = torch.zeros((max(1, len(g.nodes)), num_node_dim)); x[0, -1] = len(g.nodes) == 0;
\* then x[i, sl + idx] = 1 for each attribute of each node
NodeFeatures(c, G) ==
  LET n == NumNodes(G)
      rows == IF n > 1 THEN n ELSE 1
  IN [i \in 1..rows |->
       LET bits == IF i <= n
                   THEN OneHotBits(c.atom_attr_values, c.atom_attrs, c.atom_attr_slice, G.nodes[i])
                   ELSE {}
       IN [j \in 1..c.num_node_dim |->
            IF (j - 1) \in bits THEN 1
            ELSE IF i = 1 /\ j = c.num_node_dim /\ n = 0 THEN 1 ELSE 0]]

\* edge_attr: rows 2i and 2i + 1 for the i-th edge of g.edges
EdgeFeatures(c, G) ==
  LET edges == NxEdges(G)
  IN [r \in 1..(2 * Len(edges)) |->
       LET e == edges[(r + 1) \div 2]
           bits == OneHotBits(c.bond_attr_values, c.bond_attrs, c.bond_attr_slice,
                              G.eattr[EdgeKey(e[1], e[2])])
       IN [j \in 1..c.num_edge_dim |-> IF (j - 1) \in bits THEN 1 ELSE 0]]

\* [e for i, j in g.edges for e in [(i, j), (j, i)]], as columns
EdgeIndex(G) ==
  LET edges == NxEdges(G)
  IN Flatten([i \in 1..Len(edges) |->
               <<<<edges[i][1], edges[i][2]>>, <<edges[i][2], edges[i][1]>>>>])

\* NonEdgeIndex taken from g instead of its complement
NonEdgeIndex_OfGraph(G) == NxEdges(G)

\* [i for i in nx.complement(g).edges], as columns
NonEdgeIndex(G) == NxEdges(NxComplement(G))

graph_to_Data(c, G) ==
  IF \/ \E i \in 1..NumNodes(G) : BadValue(c.atom_attr_values, c.atom_attrs, G.nodes[i])
     \/ \E e \in DOMAIN G.eattr : BadValue(c.bond_attr_values, c.bond_attrs, G.eattr[e])
  THEN Raise("ValueError")
  ELSE [x |-> NodeFeatures(c, G), edge_index |-> EdgeIndex(G), edge_attr |-> EdgeFeatures(c, G),
        non_edge_index |-> NonEdgeIndex(G)]

---------------------------------------------------------------------------
(* GraphAction and the index triple *)

\* GraphAction(action, source=None, target=None, value=None, attr=None)
GraphAction(t, source, target, value, attr) ==
  [action |-> t, source |-> source, target |-> target, value |-> value, attr |-> attr]

Aidx(t, row, col) == [type |-> t, row |-> row, col |-> col]

\* a Python function that ends without a return statement returns None
NoneResult == [none |-> TRUE]

\* ArgMax as a search: the position of the first value above 0, and -1 when there is none
ArgMax_NotFound(s) ==
  IF \E i \in 1..Len(s) : s[i] > 0
  THEN (CHOOSE i \in 1..Len(s) : s[i] > 0 /\ \A j \in 1..(i - 1) : s[j] <= 0) - 1
  ELSE 0 - 1

\* tensor.argmax() of a non-empty 1-D tensor: the position of the first maximal value
ArgMax(s) ==
  (CHOOSE i \in 1..Len(s) :
     /\ \A j \in 1..Len(s) : s[j] <= s[i]
     /\ \A j \in 1..(i - 1) : s[j] < s[i]) - 1

\* (index.T == torch.tensor([(a, b)])).prod(1)
MatchMask(index, a, b) == [i \in 1..Len(index) |-> IF index[i] = <<a, b>> THEN 1 ELSE 0]

\* aidx_to_GraphAction reading column act_row of edge_index instead of column act_row * 2
aidx_to_GraphAction_NoDoubling(c, d, action_idx) ==
  LET act_type == action_idx.type
      act_row == action_idx.row
      act_col == action_idx.col
  IN IF ~InRange(c.action_type_order, act_type) THEN Raise("IndexError")
     ELSE LET t == At(c.action_type_order, act_type) IN
       CASE t = "Stop" -> GraphAction(t, NoneNode, NoneNode, NoneStr, NoneStr)
         [] t = "AddNode" ->
              IF ~InRange(c.atom_attr_values["v"], act_col) THEN Raise("IndexError")
              ELSE GraphAction(t, act_row, NoneNode, At(c.atom_attr_values["v"], act_col), NoneStr)
         [] t = "SetNodeAttr" ->
              IF ~InRange(c.atom_attr_logit_map, act_col) THEN Raise("IndexError")
              ELSE LET av == At(c.atom_attr_logit_map, act_col)
                   IN GraphAction(t, act_row, NoneNode, av[2], av[1])
         [] t = "AddEdge" ->
              IF ~InRange(d.non_edge_index, act_row) THEN Raise("IndexError")
              ELSE LET ab == At(d.non_edge_index, act_row)
                   IN GraphAction(t, ab[1], ab[2], NoneStr, NoneStr)
         [] t = "SetEdgeAttr" ->
              IF ~InRange(d.edge_index, act_row) THEN Raise("IndexError")
              ELSE IF ~InRange(c.bond_attr_logit_map, act_col) THEN Raise("IndexError")
              ELSE LET ab == At(d.edge_index, act_row)
                       av == At(c.bond_attr_logit_map, act_col)
                   IN GraphAction(t, ab[1], ab[2], av[2], av[1])
         [] OTHER -> NoneResult

aidx_to_GraphAction(c, d, action_idx) ==
  LET act_type == action_idx.type
      act_row == action_idx.row
      act_col == action_idx.col
  IN IF ~InRange(c.action_type_order, act_type) THEN Raise("IndexError")
     ELSE LET t == At(c.action_type_order, act_type) IN
       CASE t = "Stop" -> GraphAction(t, NoneNode, NoneNode, NoneStr, NoneStr)
         [] t = "AddNode" ->
              IF ~InRange(c.atom_attr_values["v"], act_col) THEN Raise("IndexError")
              ELSE GraphAction(t, act_row, NoneNode, At(c.atom_attr_values["v"], act_col), NoneStr)
         [] t = "SetNodeAttr" ->
              IF ~InRange(c.atom_attr_logit_map, act_col) THEN Raise("IndexError")
              ELSE LET av == At(c.atom_attr_logit_map, act_col)
                   IN GraphAction(t, act_row, NoneNode, av[2], av[1])
         [] t = "AddEdge" ->
              IF ~InRange(d.non_edge_index, act_row) THEN Raise("IndexError")
              ELSE LET ab == At(d.non_edge_index, act_row)
                   IN GraphAction(t, ab[1], ab[2], NoneStr, NoneStr)
         [] t = "SetEdgeAttr" ->
              IF ~InRange(d.edge_index, act_row * 2) THEN Raise("IndexError")
              ELSE IF ~InRange(c.bond_attr_logit_map, act_col) THEN Raise("IndexError")
              ELSE LET ab == At(d.edge_index, act_row * 2)
                       av == At(c.bond_attr_logit_map, act_col)
                   IN GraphAction(t, ab[1], ab[2], av[2], av[1])
         [] OTHER -> NoneResult

\* LogitCol without the "- 1" that skips the default value
LogitCol_NoMinusOne(values, logit_slice, attr, value) ==
  IF attr \notin DOMAIN values THEN Raise("KeyError")
  ELSE IF ~Contains(values[attr], value) THEN Raise("ValueError")
  ELSE [col |-> IndexOf(values[attr], value) + logit_slice[attr]]

\* LogitCol with a lookup that answers -1 (like str.find) instead of raising
LogitCol_NoLookupError(values, logit_slice, attr, value) ==
  IF attr \notin DOMAIN values THEN [col |-> 0 - 1]
  ELSE IF ~Contains(values[attr], value) THEN [col |-> 0 - 2 + logit_slice[attr]]
  ELSE [col |-> IndexOf(values[attr], value) - 1 + logit_slice[attr]]

\* values[attr].index(value) - 1 + logit_slice[attr]
LogitCol(values, logit_slice, attr, value) ==
  IF attr \notin DOMAIN values THEN Raise("KeyError")
  ELSE IF ~Contains(values[attr], value) THEN Raise("ValueError")
  ELSE [col |-> IndexOf(values[attr], value) - 1 + logit_slice[attr]]

\* AddEdgeRow looking for the column in the orientation of the action only
AddEdgeRow_ForwardOnly(d, action) ==
  ArgMax(MatchMask(d.non_edge_index, action.source, action.target))

\* the row of an AddEdge action: the first column matching in either orientation
AddEdgeRow(d, action) ==
  LET fwd == MatchMask(d.non_edge_index, action.source, action.target)
      bwd == MatchMask(d.non_edge_index, action.target, action.source)
  IN ArgMax([i \in 1..Len(d.non_edge_index) |-> fwd[i] + bwd[i]])

\* SetEdgeAttrRow without the division by two
SetEdgeAttrRow_NoHalving(d, action) ==
  ArgMax(MatchMask(d.edge_index, action.source, action.target))

\* the row of a SetEdgeAttr action: the first matching column, halved
SetEdgeAttrRow(d, action) ==
  ArgMax(MatchMask(d.edge_index, action.source, action.target)) \div 2

GraphAction_to_aidx(c, d, action) ==
  LET t == action.action
      type_idx == IndexOf(c.action_type_order, t)
  IN CASE t = "Stop" -> Aidx(type_idx, 0, 0)
       [] t = "AddNode" ->
            IF ~Contains(c.atom_attr_values["v"], action.value) THEN Raise("ValueError")
            ELSE Aidx(type_idx, action.source, IndexOf(c.atom_attr_values["v"], action.value))
       [] t = "SetNodeAttr" ->
            LET col == LogitCol(c.atom_attr_values, c.atom_attr_logit_slice, action.attr, action.value)
            IN IF IsRaise(col) THEN col ELSE Aidx(type_idx, action.source, col.col)
       [] t = "AddEdge" ->
            \* argmax of an empty tensor raises
            IF d.non_edge_index = << >> THEN Raise("RuntimeError")
            ELSE Aidx(type_idx, AddEdgeRow(d, action), 0)
       [] t = "SetEdgeAttr" ->
            IF d.edge_index = << >> THEN Raise("RuntimeError")
            ELSE LET col == LogitCol(c.bond_attr_values, c.bond_attr_logit_slice, action.attr, action.value)
                 IN IF IsRaise(col) THEN col
                    ELSE Aidx(type_idx, SetEdgeAttrRow(d, action), col.col)
       [] OTHER -> Raise("UnboundLocalError")

---------------------------------------------------------------------------
(* mol_to_graph, graph_to_mol, is_sane *)

\* a molecule: atoms in index order with the five accessors, bonds in order
EmptyMol == [atoms |-> << >>, bonds |-> << >>]

\* the attributes mol_to_graph reads besides the symbol, in the order of its dict
MolAtomAttrs == <<"chi", "charge", "expl_H", "no_impl">>

\* NonDefault without the comparison with the default
NonDefault_KeepsAll(defaults, keys, attrs) ==
  [k \in {keys[i] : i \in 1..Len(keys)} |-> attrs[k]]

\* {attr: val for attr, val in attrs.items() if val != defaults[attr]}
NonDefault(defaults, keys, attrs) ==
  [k \in {keys[i] : i \in {j \in 1..Len(keys) : attrs[keys[j]] # defaults[keys[j]]}} |-> attrs[k]]

RECURSIVE MolAddNodes(_, _, _)
MolAddNodes(c, G, as) ==
  IF as = << >> THEN G
  ELSE MolAddNodes(c,
         NxAddNode(G, DictSet(NonDefault(c.atom_attr_defaults, MolAtomAttrs, as[1]), "v", as[1].v)),
         Tail(as))

RECURSIVE MolAddEdges(_, _, _)
MolAddEdges(c, G, bs) ==
  IF bs = << >> THEN G
  ELSE MolAddEdges(c,
         NxAddEdge(G, bs[1].begin, bs[1].end, NonDefault(c.bond_attr_defaults, <<"type">>, bs[1])),
         Tail(bs))

mol_to_graph(c, m) == MolAddEdges(c, MolAddNodes(c, EmptyGraph, m.atoms), m.bonds)

\* Chem.Atom(symbol): a new atom has no chirality, no charge, no explicit H, implicit H allowed
ChemAtom(symbol) ==
  [v |-> symbol, chi |-> "CHI_UNSPECIFIED", charge |-> "0", expl_H |-> "0", no_impl |-> "False"]

\* AtomFromNode without the SetNoImplicit call
AtomFromNode_ForgetsNoImplicit(d) ==
  LET a == ChemAtom(d["v"])
  IN [k \in DOMAIN a |-> IF k \notin {"v", "no_impl"} /\ k \in DOMAIN d THEN d[k] ELSE a[k]]

\* a.SetX(d[k]) for each of the four attributes the node stores
AtomFromNode(d) ==
  LET a == ChemAtom(d["v"])
  IN [k \in DOMAIN a |-> IF k # "v" /\ k \in DOMAIN d THEN d[k] ELSE a[k]]

\* sanitize: the outcome of Chem.SanitizeMol, "ok" or "raise"
graph_to_mol(G, sanitize) ==
  LET edges == NxEdges(G)
  IN IF \E i \in 1..NumNodes(G) : "v" \notin DOMAIN G.nodes[i] THEN Raise("KeyError")
     ELSE IF sanitize # "ok" THEN Raise("MolSanitizeException")
     ELSE [atoms |-> [i \in 1..NumNodes(G) |-> AtomFromNode(G.nodes[i])],
           bonds |-> [i \in 1..Len(edges) |->
                       LET d == G.eattr[EdgeKey(edges[i][1], edges[i][2])]
                       IN [begin |-> edges[i][1], end |-> edges[i][2],
                           type |-> IF "type" \in DOMAIN d THEN d["type"] ELSE "SINGLE"]]]

\* is_sane without the try/except around graph_to_mol
is_sane_NoCatch(G, sanitize, smiles) ==
  LET m == graph_to_mol(G, sanitize)
  IN IF IsRaise(m) THEN m
     ELSE IF smiles = "raise" THEN Raise("RuntimeError")
     ELSE IF smiles = "None" THEN [ret |-> FALSE]
     ELSE [ret |-> TRUE]

\* smiles: the outcome of Chem.MolFromSmiles(Chem.MolToSmiles(mol)): "mol", "None" or "raise"
is_sane(G, sanitize, smiles) ==
  LET m == graph_to_mol(G, sanitize)
  IN IF IsRaise(m) THEN [ret |-> FALSE]
     ELSE IF smiles = "raise" THEN [ret |-> FALSE]
     ELSE IF smiles = "None" THEN [ret |-> FALSE]
     ELSE IF m = NoneResult THEN [ret |-> FALSE]
     ELSE [ret |-> TRUE]

---------------------------------------------------------------------------
(* The state: one context, the graph under construction, the Data last     *)
(* built from it, the last call of a codec method with its argument and    *)
(* result, and the molecule handed to mol_to_graph.                        *)

NoData == NoneResult
NoCall == [op |-> "none", arg |-> NoneResult, out |-> NoneResult, from |-> NoneResult]
Called(op, arg, out, from) == [op |-> op, arg |-> arg, out |-> out, from |-> from]


\* no call of train yet: the run of PyTorchLightningTrainingPipeline.train is the
\* pipeline it is called on, the dict as the caller passed it (args), the dict object
\* as it is now (pl_trainer_args), the Trainer, the modules and the fit call made so
\* far, the exception train raised, and the calls made so far in order (log)
NoRun ==
  [pc |-> "idle", pipeline |-> "none", args |-> EmptyDict, pl_trainer_args |-> EmptyDict,
   trainer |-> NoneResult, modules |-> NoneResult, fit |-> NoneResult,
   raised |-> NoneResult, log |-> << >>]

HasData == ~IsRaise(data) /\ data # NoData

Nodes(G) == 0..(NumNodes(G) - 1)

\* inputs of graph construction
NodeSymbols == {"C", "O", "S"}
NodeAttrInputs == {<<"charge", "-1">>, <<"no_impl", "True">>, <<"expl_H", "9">>}
EdgeAttrInputs == {<<"type", "AROMATIC">>, <<"type", "QUADRUPLE">>}

Count(S) == Cardinality(S)

\* nodes + edges + stored attributes + symbols other than carbon
GraphSize(G) ==
  NumNodes(G) + Count(DOMAIN G.eattr)
  + SumSeq([i \in 1..NumNodes(G) |-> Count((DOMAIN G.nodes[i]) \ {"v"})
                                      + (IF G.nodes[i]["v"] = "C" THEN 0 ELSE 1)])
  + Count({e \in DOMAIN G.eattr : G.eattr[e] # EmptyDict})

Init ==
  /\ \E atoms \in Vocabularies : ctx = MolBuildingEnvContext(atoms)
  /\ g = EmptyGraph
  /\ data = NoData
  /\ call = NoCall
  /\ run = NoRun
  /\ dataclass = << >>
  /\ mol = EmptyMol

\* between calls the graph changes: the Data of the old graph is dropped
Rebuilt(G) ==
  /\ call = NoCall
  /\ GraphSize(G) <= MaxSize
  /\ g' = G
  /\ data' = NoData
  /\ call' = NoCall
  /\ UNCHANGED <<ctx, mol, run, dataclass>>

AddNodeStep == \E sym \in NodeSymbols : Rebuilt(NxAddNode(g, [v |-> sym]))

AddEdgeStep ==
  \E u \in Nodes(g), w \in Nodes(g) :
    u # w /\ ~HasEdge(g, u, w) /\ Rebuilt(NxAddEdge(g, u, w, EmptyDict))

SetNodeAttrStep ==
  \E n \in Nodes(g), kv \in NodeAttrInputs :
    /\ kv[1] \notin DOMAIN g.nodes[n + 1]
    /\ Rebuilt([g EXCEPT !.nodes[n + 1] = DictSet(@, kv[1], kv[2])])

SetEdgeAttrStep ==
  \E e \in DOMAIN g.eattr, kv \in EdgeAttrInputs :
    /\ kv[1] \notin DOMAIN g.eattr[e]
    /\ Rebuilt([g EXCEPT !.eattr[e] = DictSet(@, kv[1], kv[2])])

---------------------------------------------------------------------------
(* Calls of the codec methods *)

\* the actions handed to GraphAction_to_aidx: every attribute value of the
\* vocabulary, and values and attribute names outside it
AttrPairs(values, keys) ==
  UNION {{<<k, values[k][i]>> : i \in 1..Len(values[k])} : k \in keys}

ActionInputs ==
  LET ns == Nodes(g) \cup {0}
      atoms == ctx.atom_attr_values["v"]
  IN {GraphAction("Stop", NoneNode, NoneNode, NoneStr, NoneStr)}
     \cup {GraphAction("AddNode", s, NoneNode, x, NoneStr) :
             s \in ns, x \in {atoms[i] : i \in 1..Len(atoms)} \cup {"S"}}
     \cup {GraphAction("SetNodeAttr", s, NoneNode, kx[2], kx[1]) :
             s \in ns,
             kx \in AttrPairs(ctx.atom_attr_values, (DOMAIN ctx.atom_attr_values) \ {"v"})
                    \cup {<<"charge", "9">>, <<"mass", "1">>, <<"v", "C">>}}
     \cup {GraphAction("AddEdge", s, t, NoneStr, NoneStr) : s \in ns, t \in ns}
     \cup {GraphAction("SetEdgeAttr", s, t, kx[2], kx[1]) :
             s \in ns, t \in ns,
             kx \in AttrPairs(ctx.bond_attr_values, DOMAIN ctx.bond_attr_values)
                    \cup {<<"type", "QUADRUPLE">>, <<"order", "DOUBLE">>}}

\* the index triples handed to aidx_to_GraphAction: every ordinal from one below
\* the first negative index to one past the last, and every row and column of
\* each action type up to one past its range
AidxInputs ==
  LET nt == Len(ctx.action_type_order)
  IN {Aidx(t, 0, 0) : t \in (0 - (nt + 1))..nt}
     \cup {Aidx(1, r, c) : r \in 0..NumNodes(g), c \in 0..ctx.num_new_node_values}
     \cup {Aidx(2, r, c) : r \in 0..NumNodes(g), c \in 0..ctx.num_node_attr_logits}
     \cup {Aidx(3, r, 0) : r \in 0..Len(data.non_edge_index)}
     \cup {Aidx(4, r, c) : r \in 0..(Len(data.edge_index) \div 2), c \in 0..ctx.num_edge_attr_logits}

\* the caller is done with the result of the last call
Return ==
  /\ call # NoCall
  /\ call' = NoCall
  /\ UNCHANGED <<ctx, g, data, mol, run, dataclass>>

\* CallGraphToData with a graph_to_Data that stores the default of every attribute a
\* node lacks into the node's dict (ad.setdefault) before it reads it
CallGraphToData_StoresDefaults ==
  /\ call = NoCall
  /\ data' = graph_to_Data(ctx, g)
  /\ call' = Called("graph_to_Data", NoneResult, data', NoneResult)
  /\ g' = [g EXCEPT !.nodes = [i \in 1..NumNodes(g) |->
             [k \in DOMAIN ctx.atom_attr_values |->
                IF k \in DOMAIN g.nodes[i] THEN g.nodes[i][k] ELSE ctx.atom_attr_defaults[k]]]]
  /\ UNCHANGED <<ctx, mol, run, dataclass>>

CallGraphToData ==
  /\ call = NoCall
  /\ data' = graph_to_Data(ctx, g)
  /\ call' = Called("graph_to_Data", NoneResult, data', NoneResult)
  /\ UNCHANGED <<ctx, g, mol, run, dataclass>>

CallGraphActionToAidx ==
  /\ call = NoCall
  /\ HasData
  /\ \E action \in ActionInputs :
       call' = Called("GraphAction_to_aidx", action, GraphAction_to_aidx(ctx, data, action), NoneResult)
  /\ UNCHANGED <<ctx, g, data, mol, run, dataclass>>

CallAidxToGraphAction ==
  /\ call = NoCall
  /\ HasData
  /\ \E action_idx \in AidxInputs :
       call' = Called("aidx_to_GraphAction", action_idx, aidx_to_GraphAction(ctx, data, action_idx), NoneResult)
  /\ UNCHANGED <<ctx, g, data, mol, run, dataclass>>

\* the index triple GraphAction_to_aidx returned is decoded against the same Data
DecodeEncoded ==
  /\ HasData
  /\ call.op = "GraphAction_to_aidx"
  /\ ~IsRaise(call.out)
  /\ call' = Called("aidx_to_GraphAction", call.out, aidx_to_GraphAction(ctx, data, call.out), call.arg)
  /\ UNCHANGED <<ctx, g, data, mol, run, dataclass>>

SanitizeOutcomes == {"ok", "raise"}
SmilesOutcomes == {"mol", "None", "raise"}

CallGraphToMol ==
  /\ call = NoCall
  /\ \E sanitize \in SanitizeOutcomes :
       call' = Called("graph_to_mol", [sanitize |-> sanitize], graph_to_mol(g, sanitize), NoneResult)
  /\ UNCHANGED <<ctx, g, data, mol, run, dataclass>>

CallIsSane ==
  /\ call = NoCall
  /\ \E sanitize \in SanitizeOutcomes, smiles \in SmilesOutcomes :
       call' = Called("is_sane", [sanitize |-> sanitize, smiles |-> smiles],
                      is_sane(g, sanitize, smiles), NoneResult)
  /\ UNCHANGED <<ctx, g, data, mol, run, dataclass>>

\* the GraphAction aidx_to_GraphAction returned is encoded against the same Data
EncodeDecoded ==
  /\ HasData
  /\ call.op = "aidx_to_GraphAction"
  /\ call.from = NoneResult
  /\ "action" \in DOMAIN call.out
  /\ call' = Called("GraphAction_to_aidx", call.out, GraphAction_to_aidx(ctx, data, call.out), call.arg)
  /\ UNCHANGED <<ctx, g, data, mol, run, dataclass>>

\* the molecule graph_to_mol returned is converted to a new Graph
GraphOfMol ==
  /\ call.op = "graph_to_mol"
  /\ call.from = NoneResult
  /\ ~IsRaise(call.out)
  /\ call' = Called("mol_to_graph", call.out, mol_to_graph(ctx, call.out), NoneResult)
  /\ UNCHANGED <<ctx, g, data, mol, run, dataclass>>

Next ==
  \/ AddNodeStep
  \/ AddEdgeStep
  \/ SetNodeAttrStep
  \/ SetEdgeAttrStep
  \/ CallGraphToData
  \/ CallGraphActionToAidx
  \/ CallAidxToGraphAction
  \/ DecodeEncoded
  \/ CallGraphToMol
  \/ EncodeDecoded
  \/ GraphOfMol
  \/ CallIsSane
  \/ Return

Spec == Init /\ [][Next]_vars

---------------------------------------------------------------------------
(* Molecules: the molecule handed to mol_to_graph is put together atom by  *)
(* atom and bond by bond, converted to a Graph, and the Graph converted    *)
(* back by graph_to_mol.                                                   *)

MolSymbols == {"H", "C", "O"}
MolChiralTags == {"CHI_UNSPECIFIED", "CHI_TETRAHEDRAL_CCW"}
MolCharges == {"0", "-1", "2"}
MolExplicitHs == {"0", "1"}
MolNoImplicit == {"False", "True"}
MolBondTypes == {"SINGLE", "DOUBLE", "AROMATIC", "DATIVE"}

MolAtomInputs ==
  [v : MolSymbols, chi : MolChiralTags, charge : MolCharges,
   expl_H : MolExplicitHs, no_impl : MolNoImplicit]

\* atoms + bonds + values other than those of a plain carbon atom and a single bond
MolSize(m) ==
  Len(m.atoms) + Len(m.bonds)
  + SumSeq([i \in 1..Len(m.atoms) |->
             Count({k \in DOMAIN m.atoms[i] : m.atoms[i][k] # ChemAtom("C")[k]})])
  + Count({i \in 1..Len(m.bonds) : m.bonds[i].type # "SINGLE"})

MolChanged(m) ==
  /\ call = NoCall
  /\ MolSize(m) <= MaxSize
  /\ mol' = m
  /\ g' = EmptyGraph
  /\ UNCHANGED <<ctx, data, call, run, dataclass>>

MolAddAtomStep ==
  \E a \in MolAtomInputs : MolChanged([mol EXCEPT !.atoms = Append(@, a)])

MolAddBondStep ==
  \E b \in 1..Len(mol.atoms), e \in 1..Len(mol.atoms), t \in MolBondTypes :
    /\ b # e
    /\ \A i \in 1..Len(mol.bonds) : {mol.bonds[i].begin, mol.bonds[i].end} # {b - 1, e - 1}
    /\ MolChanged([mol EXCEPT !.bonds = Append(@, [begin |-> b - 1, end |-> e - 1, type |-> t])])

CallMolToGraph ==
  /\ call = NoCall
  /\ g' = mol_to_graph(ctx, mol)
  /\ call' = Called("mol_to_graph", mol, g', NoneResult)
  /\ UNCHANGED <<ctx, data, mol, run, dataclass>>

\* the Graph mol_to_graph returned is converted back
MolOfGraph ==
  /\ call.op = "mol_to_graph"
  /\ \E sanitize \in SanitizeOutcomes :
       call' = Called("graph_to_mol", [sanitize |-> sanitize], graph_to_mol(call.out, sanitize), call.arg)
  /\ UNCHANGED <<ctx, g, data, mol, run, dataclass>>

NextMol ==
  \/ MolAddAtomStep
  \/ MolAddBondStep
  \/ CallMolToGraph
  \/ MolOfGraph
  \/ CallIsSane
  \/ Return

SpecMol == Init /\ [][NextMol]_vars

---------------------------------------------------------------------------
(* PyTorchLightningTrainingPipeline.train                                  *)
(* (gt4sd/training_pipelines/pytorch_lightning/core.py).  A value of the   *)
(* arguments other than None is the record [value |-> x], None is          *)
(* NoneResult, and a checkpoint path is the sequence of its characters.    *)

Value(x) == [value |-> x]

\* ".ckpt"
CkptSuffix == <<".", "c", "k", "p", "t">>

\* str.endswith
EndsWith(s, suffix) ==
  /\ Len(s) >= Len(suffix)
  /\ SubSeq(s, Len(s) - Len(suffix) + 1, Len(s)) = suffix

\* del d[k] for every k of keys
DictDel(d, keys) == [k \in (DOMAIN d) \ keys |-> d[k]]

\* the keys train moves into the arguments of the checkpoint callback
CheckpointKeys == {"monitor", "save_top_k", "mode", "every_n_train_steps", "save_last"}

\* the callback objects, as the class and the keyword arguments of the constructor
EarlyStopping(kwargs) == [class |-> "EarlyStopping", kwargs |-> kwargs]
ModelCheckpoint(kwargs) == [class |-> "ModelCheckpoint", kwargs |-> kwargs]

add_callbacks(callback_args) ==
  (IF "early_stopping_callback" \in DOMAIN callback_args
   THEN <<EarlyStopping(callback_args["early_stopping_callback"])>> ELSE << >>)
  \o (IF "model_checkpoint_callback" \in DOMAIN callback_args
      THEN <<ModelCheckpoint(callback_args["model_checkpoint_callback"])>> ELSE << >>)

\* if args["resume_from_checkpoint"] is not None and not ....endswith(".ckpt"): ... = None
ResumeChecked(args) ==
  IF /\ args["resume_from_checkpoint"] # NoneResult
     /\ ~EndsWith(args["resume_from_checkpoint"].value, CkptSuffix)
  THEN DictSet(args, "resume_from_checkpoint", NoneResult)
  ELSE args

\* Relocated without the del statement
Relocated_KeepsKeys(args) ==
  DictSet(args, "callbacks",
          [model_checkpoint_callback |-> [k \in CheckpointKeys |-> args[k]]])

\* args["callbacks"] = {"model_checkpoint_callback": {...}}; del args["monitor"], ...
Relocated(args) ==
  DictDel(DictSet(args, "callbacks",
                  [model_checkpoint_callback |-> [k \in CheckpointKeys |-> args[k]]]),
          CheckpointKeys)

\* get_data_and_model_modules of the abstract pipeline returning a pair of None
get_data_and_model_modules_ReturnsNone(pipeline, outcome) ==
  IF pipeline = "abstract" THEN <<NoneResult, NoneResult>>
  ELSE outcome

\* get_data_and_model_modules: the abstract pipeline raises; outcome is what the
\* method of a subclass does, (data_module, model_module) or a raise
get_data_and_model_modules(pipeline, outcome) ==
  IF pipeline = "abstract" THEN Raise("NotImplementedError")
  ELSE outcome

\* the pipeline train is called on: the abstract one, or a subclass that overrides
\* get_data_and_model_modules
Pipelines == {"abstract", "subclass"}

\* the values of the arguments train is called with, per key
ResumeInputs ==
  <<NoneResult, Value(<<"m", ".", "c", "k", "p", "t">>), Value(<<"m", ".", "p", "t">>),
    Value(<<".", "c", "k", "p", "t">>), Value(<<"c", "k", "p", "t">>), Value(<< >>)>>
MonitorInputs == <<NoneResult, Value("val_loss")>>
SaveTopKInputs == <<NoneResult, Value(1)>>
ModeInputs == <<Value("min"), Value("max")>>
EveryNTrainStepsInputs == <<NoneResult, Value(100)>>
SaveLastInputs == <<Value(TRUE), Value(FALSE)>>

\* the dict train is called with: the keys of PytorchLightningTrainingArguments that
\* train reads and two of those it passes on
TrainerArgs(resume, monitor, save_top_k, mode, every_n_train_steps, save_last) ==
  [resume_from_checkpoint |-> resume, monitor |-> monitor, save_top_k |-> save_top_k,
   mode |-> mode, every_n_train_steps |-> every_n_train_steps, save_last |-> save_last,
   max_epochs |-> Value(3), gpus |-> Value(0 - 1)]

\* the same dict, without a key train reads, or with a callbacks entry of the caller
ArgsShapes(d) ==
  <<d, DictDel(d, {"mode"}), DictDel(d, {"resume_from_checkpoint"}),
    DictSet(d, "callbacks", <<EarlyStopping([monitor |-> Value("val_loss")])>>)>>

\* what the constructors of the library do: return, or raise on a configuration
\* they reject
CallbackOutcomes == {"ok", "raise"}
TrainerOutcomes == {"ok", "raise"}
FitOutcomes == {"ok", "raise"}

\* what get_data_and_model_modules of a subclass does
ModulesOutcomes ==
  <<<<"data_module_1", "model_module_1">>, <<"data_module_2", "model_module_1">>,
    Raise("ValueError")>>

Exceptions ==
  {"KeyError", "MisconfigurationException", "NotImplementedError", "ValueError", "RuntimeError"}

IsException(r) == \E e \in Exceptions : r = Raise(e)

\* train raises exc out of the step it is in
TrainRaises(r, exc) == [r EXCEPT !.pc = "raised", !.raised = exc]

\* train(pl_trainer_args, model_args, dataset_args) is called
TrainCall ==
  /\ run.pc = "idle"
  /\ \E pipeline \in Pipelines,
        i1 \in 1..Len(ResumeInputs), i2 \in 1..Len(MonitorInputs),
        i3 \in 1..Len(SaveTopKInputs), i4 \in 1..Len(ModeInputs),
        i5 \in 1..Len(EveryNTrainStepsInputs), i6 \in 1..Len(SaveLastInputs),
        shape \in 1..4 :
       LET d == ArgsShapes(TrainerArgs(ResumeInputs[i1], MonitorInputs[i2], SaveTopKInputs[i3],
                                       ModeInputs[i4], EveryNTrainStepsInputs[i5],
                                       SaveLastInputs[i6]))[shape]
       IN run' = [NoRun EXCEPT !.pc = "called", !.pipeline = pipeline,
                               !.args = d, !.pl_trainer_args = d]
  /\ UNCHANGED <<ctx, g, data, call, mol, dataclass>>

\* lines 64-90: the checkpoint path is checked, the five checkpoint keys are moved
\* into the callback arguments and deleted, and the callbacks are created
RewriteArgs ==
  /\ run.pc = "called"
  /\ LET a == run.pl_trainer_args
         r == [run EXCEPT !.log = Append(@, "rewrite")]
     IN IF "resume_from_checkpoint" \notin DOMAIN a
        THEN run' = TrainRaises(r, Raise("KeyError"))
        ELSE IF ~(CheckpointKeys \subseteq DOMAIN a)
        THEN run' = TrainRaises([r EXCEPT !.pl_trainer_args = ResumeChecked(a)], Raise("KeyError"))
        ELSE LET moved == Relocated(ResumeChecked(a))
             IN \E outcome \in CallbackOutcomes :
                  IF outcome = "raise"
                  THEN run' = TrainRaises([r EXCEPT !.pl_trainer_args = moved],
                                          Raise("MisconfigurationException"))
                  ELSE run' = [r EXCEPT !.pc = "rewritten",
                                        !.pl_trainer_args =
                                          DictSet(moved, "callbacks", add_callbacks(moved["callbacks"]))]
  /\ UNCHANGED <<ctx, g, data, call, mol, dataclass>>

\* trainer = Trainer(**pl_trainer_args)
ConstructTrainer ==
  /\ run.pc = "rewritten"
  /\ LET r == [run EXCEPT !.log = Append(@, "Trainer")]
     IN \E outcome \in TrainerOutcomes :
          IF outcome = "raise"
          THEN run' = TrainRaises(r, Raise("MisconfigurationException"))
          ELSE run' = [r EXCEPT !.pc = "trainer", !.trainer = [kwargs |-> run.pl_trainer_args]]
  /\ UNCHANGED <<ctx, g, data, call, mol, dataclass>>

\* data_module, model_module = self.get_data_and_model_modules(model_args, dataset_args)
GetModules ==
  /\ run.pc = "trainer"
  /\ LET r == [run EXCEPT !.log = Append(@, "get_data_and_model_modules")]
     IN \E i \in 1..Len(ModulesOutcomes) :
          LET ret == get_data_and_model_modules(run.pipeline, ModulesOutcomes[i])
          IN IF IsException(ret)
             THEN run' = TrainRaises(r, ret)
             ELSE run' = [r EXCEPT !.pc = "modules", !.modules = ret]
  /\ UNCHANGED <<ctx, g, data, call, mol, dataclass>>

\* trainer.fit(model_module, data_module)
Fit ==
  /\ run.pc = "modules"
  /\ LET r == [run EXCEPT !.log = Append(@, "fit"),
                          !.fit = [model |-> run.modules[2], datamodule |-> run.modules[1]]]
     IN \E outcome \in FitOutcomes :
          IF outcome = "raise"
          THEN run' = TrainRaises(r, Raise("RuntimeError"))
          ELSE run' = [r EXCEPT !.pc = "done"]
  /\ UNCHANGED <<ctx, g, data, call, mol, dataclass>>

NextTrain ==
  \/ TrainCall
  \/ RewriteArgs
  \/ ConstructTrainer
  \/ GetModules
  \/ Fit

SpecTrain == Init /\ [][NextTrain]_vars

---------------------------------------------------------------------------
(* extract_fields_from_class (gt4sd/cli/load_arguments_from_dataclass.py). *)
(* A type annotation is a class, [class |-> name], or a subscripted typing *)
(* construct with its __origin__ and __args__; a dataclass is the sequence *)
(* of its Field objects; the default of a field that declares none is      *)
(* MISSING.                                                                *)

\* fields of the dataclass under construction
MaxFields == 2

Class(name) == [class |-> name]
Subscripted(origin, args) == [origin |-> origin, args |-> args]

\* dataclasses.MISSING
MISSING == [missing |-> TRUE]

\* the type string, or None (NoneStr) for a type that is not supported
find_type(input_type) ==
  IF input_type = Class("str") THEN "string"
  ELSE IF input_type = Class("int") THEN "integer"
  ELSE IF input_type = Class("float") THEN "number"
  ELSE IF input_type = Class("bool") THEN "boolean"
  ELSE NoneStr

\* [find_type(type) for type in args], without the None entries
SupportedTypes(args) ==
  SelectSeq([i \in 1..Len(args) |-> find_type(args[i])], LAMBDA t : t # NoneStr)

\* FieldType taking the first supported member of a Union that has one or more
FieldType_FirstSupported(type) ==
  LET field_type == find_type(type)
  IN IF field_type # NoneStr THEN [type |-> field_type]
     ELSE IF "origin" \in DOMAIN type /\ type.origin = "Union"
     THEN LET types == SupportedTypes(type.args)
          IN IF Len(types) >= 1 THEN [type |-> types[1]] ELSE Raise("ValueError")
     ELSE Raise("ValueError")

\* the third loop of extract_fields_from_class for one field: [type |-> the type
\* string], or the ValueError
FieldType(type) ==
  LET field_type == find_type(type)
  IN IF field_type # NoneStr THEN [type |-> field_type]
     ELSE IF "origin" \in DOMAIN type /\ type.origin = "Union"
     THEN LET types == SupportedTypes(type.args)
          IN IF Len(types) = 1 THEN [type |-> types[1]] ELSE Raise("ValueError")
     ELSE Raise("ValueError")

\* the second loop, on the Field objects: if field.default is None: field.default = "none"
DefaultsStored(dc) ==
  [i \in 1..Len(dc) |->
     IF dc[i].default = NoneResult THEN [dc[i] EXCEPT !.default = Value("none")] ELSE dc[i]]

\* the entry of one field: type, description, and default when the field has one
FieldEntry(f) ==
  IF f.default # MISSING
  THEN [type |-> FieldType(f.type).type, description |-> f.metadata["help"], default |-> f.default]
  ELSE [type |-> FieldType(f.type).type, description |-> f.metadata["help"]]

\* the returned dict is [ret |-> arg_fields]
extract_fields_from_class(dc) ==
  IF \E i \in 1..Len(dc) : "help" \notin DOMAIN dc[i].metadata THEN Raise("KeyError")
  ELSE IF \E i \in 1..Len(dc) : FieldType(dc[i].type) = Raise("ValueError")
  THEN Raise("ValueError")
  ELSE LET stored == DefaultsStored(dc)
       IN [ret |-> [n \in {stored[i].name : i \in 1..Len(stored)} |->
                      FieldEntry(stored[CHOOSE i \in 1..Len(stored) : stored[i].name = n])]]

\* the names of the fields, in the order of declaration
FieldNames == <<"accelerator", "max_epochs", "gpus", "monitor">>

\* the annotations of the fields: the four classes, Unions with one, two and no
\* supported member, and types that are neither
TypeInputs ==
  <<Class("str"), Class("int"), Class("float"), Class("bool"),
    Subscripted("Union", <<Class("str"), Class("NoneType")>>),
    Subscripted("Union", <<Class("int"), Class("NoneType")>>),
    Subscripted("Union", <<Class("bool"), Subscripted("list", <<Class("int")>>)>>),
    Subscripted("Union", <<Class("int"), Class("str")>>),
    Subscripted("Union", <<Class("float"), Class("int"), Class("NoneType")>>),
    Subscripted("Union", <<Subscripted("list", <<Class("int")>>), Class("NoneType")>>),
    Subscripted("list", <<Class("int")>>),
    Class("dict")>>

\* the defaults of the fields: none declared, None, and a value that is false in a test
DefaultInputs == <<MISSING, NoneResult, Value(0)>>

\* the metadata of the fields: with the help text, and without
MetadataInputs == <<[help |-> "Accelerator type."], EmptyDict>>

\* between calls a field is declared
AddFieldStep ==
  /\ call = NoCall
  /\ Len(dataclass) < MaxFields
  /\ Len(dataclass) < Len(FieldNames)
  /\ \E t \in 1..Len(TypeInputs), d \in 1..Len(DefaultInputs), m \in 1..Len(MetadataInputs) :
       /\ m = 2 => (t = 1 /\ d = 1)
       /\ dataclass' = Append(dataclass,
                              [name |-> FieldNames[Len(dataclass) + 1], type |-> TypeInputs[t],
                               metadata |-> MetadataInputs[m], default |-> DefaultInputs[d]])
  /\ UNCHANGED <<ctx, g, data, call, mol, run>>

\* extract_fields_from_class(dataclass): the Field objects keep the defaults the
\* second loop stored, also when the third loop raises
CallExtractFields ==
  /\ call = NoCall
  /\ LET out == extract_fields_from_class(dataclass)
     IN /\ call' = Called("extract_fields_from_class", [fields |-> dataclass], out, NoneResult)
        /\ dataclass' = IF out = Raise("KeyError") THEN dataclass ELSE DefaultsStored(dataclass)
  /\ UNCHANGED <<ctx, g, data, mol, run>>

NextFields ==
  \/ AddFieldStep
  \/ CallExtractFields
  \/ Return

SpecFields == Init /\ [][NextFields]_vars

---------------------------------------------------------------------------
(* Properties *)

Min(a, b) == IF a <= b THEN a ELSE b
Max(a, b) == IF a <= b THEN b ELSE a

\* an action that can be applied to G: a new node with a symbol of the vocabulary, a
\* non-default vocabulary value for an attribute the node or edge does not store yet,
\* an edge between two distinct nodes that are not adjacent
LegalAction(G, a) ==
  CASE a.action = "Stop" -> TRUE
    [] a.action = "AddNode" ->
         /\ a.source \in Nodes(G) \cup {0}
         /\ Contains(ctx.atom_attr_values["v"], a.value)
    [] a.action = "SetNodeAttr" ->
         /\ a.source \in Nodes(G)
         /\ a.attr \in (DOMAIN ctx.atom_attr_values) \ {"v"}
         /\ Contains(ctx.atom_attr_values[a.attr], a.value)
         /\ a.value # ctx.atom_attr_defaults[a.attr]
         /\ a.attr \notin DOMAIN G.nodes[a.source + 1]
    [] a.action = "AddEdge" ->
         /\ a.source \in Nodes(G) /\ a.target \in Nodes(G)
         /\ a.source # a.target
         /\ ~HasEdge(G, a.source, a.target)
    [] a.action = "SetEdgeAttr" ->
         /\ a.source \in Nodes(G) /\ a.target \in Nodes(G)
         /\ HasEdge(G, a.source, a.target)
         /\ a.attr \in DOMAIN ctx.bond_attr_values
         /\ Contains(ctx.bond_attr_values[a.attr], a.value)
         /\ a.value # ctx.bond_attr_defaults[a.attr]
         /\ a.attr \notin DOMAIN G.eattr[EdgeKey(a.source, a.target)]
    [] OTHER -> FALSE

IsAction(r) == "action" \in DOMAIN r
EdgeAction(a) == a.action \in {"AddEdge", "SetEdgeAttr"}

\* the call decoded the index triple that GraphAction_to_aidx returned for call.from
DecodedBack == call.op = "aidx_to_GraphAction" /\ call.from # NoneResult

\* C1 as stated: for every legal action a applicable to g, with d = graph_to_Data(g),
\* GraphAction_to_aidx(d, a) returns an index triple and aidx_to_GraphAction(d, .) of it
\* equals a in action type, source, target, attribute name and value.
C1_RoundTripExact ==
  /\ (call.op = "GraphAction_to_aidx" /\ LegalAction(g, call.arg)) => ~IsRaise(call.out)
  /\ (DecodedBack /\ LegalAction(g, call.from)) => call.out = call.from

\* C1 amended: the round trip of a legal action returns its action type, attribute
\* name and value, and its source and target for Stop, AddNode and SetNodeAttr; for
\* AddEdge and SetEdgeAttr it returns the two nodes with the smaller one as source.
C1_RoundTripUpToOrientation ==
  /\ (call.op = "GraphAction_to_aidx" /\ LegalAction(g, call.arg)) => ~IsRaise(call.out)
  /\ (DecodedBack /\ LegalAction(g, call.from)) =>
       /\ IsAction(call.out)
       /\ call.out.action = call.from.action
       /\ call.out.attr = call.from.attr
       /\ call.out.value = call.from.value
       /\ IF EdgeAction(call.from)
          THEN /\ call.out.source = Min(call.from.source, call.from.target)
               /\ call.out.target = Max(call.from.source, call.from.target)
          ELSE /\ call.out.source = call.from.source
               /\ call.out.target = call.from.target

\* C1 witness: a legal SetEdgeAttr action given with the larger node as source has
\* been encoded and decoded back, on a graph where it is not the first edge.
C1_Witness ==
  /\ DecodedBack
  /\ LegalAction(g, call.from)
  /\ call.from.action = "SetEdgeAttr"
  /\ call.from.source > call.from.target
  /\ call.arg.row > 0
  /\ IsAction(call.out)

\* the scenario of C2: vocabulary [H, C, N, O, F], two carbon atoms 0 and 1
TwoCarbons ==
  /\ ctx.atom_attr_values["v"] = <<"H", "C", "N", "O", "F">>
  /\ g.nodes = <<[v |-> "C"], [v |-> "C"]>>

SingleBond == DOMAIN g.eattr = {<<0, 1>>} /\ g.eattr[<<0, 1>>] = EmptyDict
NoBond == DOMAIN g.eattr = {}

AddEdge01(a) == a.action = "AddEdge" /\ {a.source, a.target} = {0, 1}

\* C2 as stated: on the two-carbon graph with a single bond, encoding the AddEdge
\* action between atom 0 and atom 1 and decoding the result returns an action equal
\* to the original, in either orientation of the action.
C2_AddEdgeScenario ==
  (TwoCarbons /\ SingleBond /\ call.op = "GraphAction_to_aidx" /\ AddEdge01(call.arg)) =>
    /\ ~IsRaise(call.out)
    /\ aidx_to_GraphAction(ctx, data, call.out) = call.arg

\* C2 amended: on the two-carbon graph without a bond the non-edge index is the one
\* column (0, 1), AddEdge between 0 and 1 encodes to (3, 0, 0) in either orientation
\* and decodes to AddEdge(source 0, target 1), the original only when it was given
\* as (0, 1); with the single bond the non-edge index is empty and encoding raises.
C2_AddEdgeScenarioAmended ==
  /\ (TwoCarbons /\ NoBond /\ HasData) => data.non_edge_index = <<<<0, 1>>>>
  /\ (TwoCarbons /\ NoBond /\ call.op = "GraphAction_to_aidx" /\ AddEdge01(call.arg)) =>
       call.out = Aidx(3, 0, 0)
  /\ (TwoCarbons /\ NoBond /\ DecodedBack /\ AddEdge01(call.from)) =>
       /\ call.out = GraphAction("AddEdge", 0, 1, NoneStr, NoneStr)
       /\ (call.out = call.from) <=> (call.from.source = 0)
  /\ (TwoCarbons /\ SingleBond /\ HasData) => data.non_edge_index = << >>
  /\ (TwoCarbons /\ SingleBond /\ call.op = "GraphAction_to_aidx" /\ AddEdge01(call.arg)) =>
       call.out = Raise("RuntimeError")

\* C2 witness: on the unbonded two-carbon graph, AddEdge(source 1, target 0) has been
\* encoded and decoded back as AddEdge(source 0, target 1).
C2_Witness ==
  /\ TwoCarbons /\ NoBond /\ DecodedBack
  /\ call.from = GraphAction("AddEdge", 1, 0, NoneStr, NoneStr)
  /\ call.out = GraphAction("AddEdge", 0, 1, NoneStr, NoneStr)

\* the call converted back the Graph that mol_to_graph returned for call.from
ConvertedBack == call.op = "graph_to_mol" /\ call.from # NoneResult /\ ~IsRaise(call.out)

\* the bonds of a molecule as unordered pairs with their type
BondSet(m) ==
  {<<EdgeKey(m.bonds[i].begin, m.bonds[i].end), m.bonds[i].type>> : i \in 1..Len(m.bonds)}

MolGraph == call.op = "mol_to_graph"

\* C4 as stated: no node or edge of mol_to_graph(m) stores an attribute, the element
\* symbol v included, whose value equals the first entry of its value list.
C4_DefaultOmission ==
  MolGraph =>
    /\ \A i \in 1..NumNodes(call.out) : \A k \in DOMAIN call.out.nodes[i] :
         call.out.nodes[i][k] # ctx.atom_attr_defaults[k]
    /\ \A e \in DOMAIN call.out.eattr : \A k \in DOMAIN call.out.eattr[e] :
         call.out.eattr[e][k] # ctx.bond_attr_defaults[k]

\* C4 amended: no node of mol_to_graph(m) stores chi, charge, expl_H or no_impl with
\* its default value and no edge stores the default type; the element symbol v is
\* stored on every node, also when it is the first entry of the vocabulary.
C4_DefaultOmissionExceptSymbol ==
  MolGraph =>
    /\ \A i \in 1..NumNodes(call.out) :
         /\ "v" \in DOMAIN call.out.nodes[i]
         /\ call.out.nodes[i]["v"] = mol.atoms[i].v
         /\ \A k \in (DOMAIN call.out.nodes[i]) \ {"v"} :
              call.out.nodes[i][k] # ctx.atom_attr_defaults[k]
    /\ \A e \in DOMAIN call.out.eattr : \A k \in DOMAIN call.out.eattr[e] :
         call.out.eattr[e][k] # ctx.bond_attr_defaults[k]

\* C4 witness: mol_to_graph has converted a molecule with an atom whose symbol is the
\* first entry of the vocabulary and a bond of the default type.
C4_Witness ==
  /\ MolGraph
  /\ \E i \in 1..Len(mol.atoms) :
       /\ mol.atoms[i].v = ctx.atom_attr_defaults["v"]
       /\ call.out.nodes[i]["v"] = ctx.atom_attr_defaults["v"]
       /\ mol.atoms[i].chi = ctx.atom_attr_defaults["chi"]
  /\ \E i \in 1..Len(mol.bonds) :
       /\ mol.bonds[i].type = ctx.bond_attr_defaults["type"]
       /\ call.out.eattr[EdgeKey(mol.bonds[i].begin, mol.bonds[i].end)] = EmptyDict

\* graph_to_Data has returned the Data of g
DataBuilt == call.op = "graph_to_Data" /\ ~IsRaise(call.out)

\* C5: graph_to_Data of a graph without nodes gives exactly one node row, whose last
\* bit is 1 and whose other bits are 0, and no edge column, edge row or non-edge
\* column; for a graph with nodes it gives one row per node, each with last bit 0.
C5_EmptyGraphRow ==
  /\ (call.op = "graph_to_Data" /\ NumNodes(g) = 0) => ~IsRaise(call.out)
  /\ DataBuilt =>
       IF NumNodes(g) = 0
       THEN /\ Len(call.out.x) = 1
            /\ Len(call.out.x[1]) = ctx.atom_attr_size + 1
            /\ \A j \in 1..Len(call.out.x[1]) :
                 call.out.x[1][j] = (IF j = ctx.atom_attr_size + 1 THEN 1 ELSE 0)
            /\ call.out.edge_index = << >>
            /\ call.out.edge_attr = << >>
            /\ call.out.non_edge_index = << >>
       ELSE /\ Len(call.out.x) = NumNodes(g)
            /\ \A i \in 1..Len(call.out.x) : call.out.x[i][Len(call.out.x[i])] = 0

\* C5 witness: graph_to_Data has been called on the graph without nodes.
C5_Witness ==
  /\ DataBuilt
  /\ NumNodes(g) = 0
  /\ call.out.x[1][ctx.num_node_dim] = 1

\* C6: is_sane(g) always returns a boolean and raises nothing; it returns true exactly
\* when graph_to_mol(g) returns a molecule and the canonical-string round trip of it
\* yields a molecule, and false when either fails.
C6_IsSaneCatches ==
  call.op = "is_sane" =>
    /\ call.out \in {[ret |-> TRUE], [ret |-> FALSE]}
    /\ call.out.ret <=> (/\ ~IsRaise(graph_to_mol(g, call.arg.sanitize))
                         /\ call.arg.smiles = "mol")

\* C6 witness: is_sane has answered false for a graph whose reconstruction raised.
C6_Witness ==
  /\ call.op = "is_sane"
  /\ NumNodes(g) > 1
  /\ IsRaise(graph_to_mol(g, call.arg.sanitize))
  /\ call.out = [ret |-> FALSE]

NumTypes == Len(ctx.action_type_order)
UnknownOrdinal(t) == t < 0 \/ t >= NumTypes

\* C7 as stated: for every index triple whose action-type ordinal is below 0 or at
\* least 5, aidx_to_GraphAction raises nothing and returns None.
C7_UnknownTypeReturnsNone ==
  (call.op = "aidx_to_GraphAction" /\ UnknownOrdinal(call.arg.type)) => call.out = NoneResult

\* C7 amended: aidx_to_GraphAction never returns None; for an ordinal of at least 5
\* or below -5 it raises IndexError, and an ordinal t in -5..-1 is decoded as the
\* ordinal t + 5.
C7_UnknownTypeRaises ==
  call.op = "aidx_to_GraphAction" =>
    /\ call.out # NoneResult
    /\ (call.arg.type >= NumTypes \/ call.arg.type < 0 - NumTypes) =>
         call.out = Raise("IndexError")
    /\ (call.arg.type < 0 /\ call.arg.type >= 0 - NumTypes) =>
         /\ call.out = aidx_to_GraphAction(ctx, data, [call.arg EXCEPT !.type = @ + NumTypes])
         /\ (call.arg.type = 0 - NumTypes) => call.out.action = "Stop"

\* C7 witness: aidx_to_GraphAction has been called with the ordinal 5, one past
\* the last action type, and raised.
C7_Witness ==
  /\ call.op = "aidx_to_GraphAction"
  /\ call.arg.type = NumTypes
  /\ IsRaise(call.out)

\* a stored value of one of the attributes is not in its value list
OutOfVocabulary(values, ad) == \E k \in (DOMAIN ad) \cap (DOMAIN values) : ~Contains(values[k], ad[k])

\* C8: GraphAction_to_aidx raises, and returns no index triple, for an AddNode action
\* whose value is not in the atom vocabulary and for a SetNodeAttr or SetEdgeAttr
\* action whose attribute is unknown or whose value is not in the attribute's value
\* list; graph_to_Data raises when a node or an edge stores a value that is not in
\* the value list of its attribute.
C8_UnsupportedValuesRaise ==
  /\ (call.op = "GraphAction_to_aidx" /\ call.arg.action = "AddNode"
        /\ ~Contains(ctx.atom_attr_values["v"], call.arg.value)) => IsRaise(call.out)
  /\ (call.op = "GraphAction_to_aidx" /\ call.arg.action = "SetNodeAttr"
        /\ (\/ call.arg.attr \notin DOMAIN ctx.atom_attr_values
            \/ ~Contains(ctx.atom_attr_values[call.arg.attr], call.arg.value))) => IsRaise(call.out)
  /\ (call.op = "GraphAction_to_aidx" /\ call.arg.action = "SetEdgeAttr"
        /\ (\/ call.arg.attr \notin DOMAIN ctx.bond_attr_values
            \/ ~Contains(ctx.bond_attr_values[call.arg.attr], call.arg.value))) => IsRaise(call.out)
  /\ (call.op = "graph_to_Data"
        /\ (\/ \E i \in 1..NumNodes(g) : OutOfVocabulary(ctx.atom_attr_values, g.nodes[i])
            \/ \E e \in DOMAIN g.eattr : OutOfVocabulary(ctx.bond_attr_values, g.eattr[e]))) =>
       IsRaise(call.out)

\* C8 witness: GraphAction_to_aidx has raised for a SetEdgeAttr action on an existing
\* edge whose bond type is not in the bond vocabulary.
C8_Witness ==
  /\ call.op = "GraphAction_to_aidx"
  /\ call.arg.action = "SetEdgeAttr"
  /\ HasEdge(g, call.arg.source, call.arg.target)
  /\ call.arg.attr = "type"
  /\ ~Contains(ctx.bond_attr_values["type"], call.arg.value)
  /\ call.out = Raise("ValueError")

\* the (attribute, value) pairs with a value other than the attribute's default
NonDefaultPairs(values, defaults, keys) ==
  {kx \in AttrPairs(values, keys) : kx[2] # defaults[kx[1]]}

Columns(map) == {map[i] : i \in 1..Len(map)}

\* C9: every SetNodeAttr column decodes to an (attribute, value) pair whose value is
\* not the attribute's default and every SetEdgeAttr column to a bond type other than
\* the default; num_node_attr_logits and num_edge_attr_logits are the numbers of these
\* pairs (of the atom attributes other than v, and of the bond attributes); and what
\* aidx_to_GraphAction makes of a GraphAction_to_aidx result never has a default value.
C9_LogitColumnsNonDefault ==
  /\ \A col \in 0..(ctx.num_node_attr_logits - 1) :
       LET a == aidx_to_GraphAction(ctx, [non_edge_index |-> << >>, edge_index |-> << >>], Aidx(IndexOf(ctx.action_type_order, "SetNodeAttr"), 0, col))
       IN IsAction(a) /\ a.value # ctx.atom_attr_defaults[a.attr]
  /\ \A col \in 0..(ctx.num_edge_attr_logits - 1) :
       LET a == aidx_to_GraphAction(ctx, [non_edge_index |-> << >>, edge_index |-> <<<<0, 1>>, <<1, 0>>>>], Aidx(IndexOf(ctx.action_type_order, "SetEdgeAttr"), 0, col))
       IN IsAction(a) /\ a.value # ctx.bond_attr_defaults[a.attr]
  /\ Columns(ctx.atom_attr_logit_map) =
       NonDefaultPairs(ctx.atom_attr_values, ctx.atom_attr_defaults, (DOMAIN ctx.atom_attr_values) \ {"v"})
  /\ ctx.num_node_attr_logits = Cardinality(Columns(ctx.atom_attr_logit_map))
  /\ Columns(ctx.bond_attr_logit_map) =
       NonDefaultPairs(ctx.bond_attr_values, ctx.bond_attr_defaults, DOMAIN ctx.bond_attr_values)
  /\ ctx.num_edge_attr_logits = Cardinality(Columns(ctx.bond_attr_logit_map))
  /\ (call.op = "aidx_to_GraphAction" /\ IsAction(call.out)) =>
       /\ call.out.action = "SetNodeAttr" => call.out.value # ctx.atom_attr_defaults[call.out.attr]
       /\ call.out.action = "SetEdgeAttr" => call.out.value # ctx.bond_attr_defaults[call.out.attr]

\* C9 witness: the last SetNodeAttr column has been decoded, and it is the last
\* non-default value of the last attribute.
C9_Witness ==
  /\ call.op = "aidx_to_GraphAction"
  /\ call.arg.type = IndexOf(ctx.action_type_order, "SetNodeAttr")
  /\ call.arg.col = ctx.num_node_attr_logits - 1
  /\ IsAction(call.out)
  /\ call.out.attr = "no_impl" /\ call.out.value = "True"

\* C10: graph_to_Data stores the i-th edge (a, b) of g as columns 2i = (a, b) and
\* 2i + 1 = (b, a) of edge_index, with equal feature rows 2i and 2i + 1;
\* aidx_to_GraphAction decodes SetEdgeAttr row r to the nodes of column 2r; and
\* GraphAction_to_aidx returns row i for a SetEdgeAttr action on the i-th edge in
\* either orientation, a row below the number of edges.
C10_SetEdgeAttrRow ==
  LET edges == NxEdges(g) IN
  /\ DataBuilt =>
       /\ Len(call.out.edge_index) = 2 * Len(edges)
       /\ Len(call.out.edge_attr) = 2 * Len(edges)
       /\ \A i \in 1..Len(edges) :
            /\ call.out.edge_index[2 * i - 1] = edges[i]
            /\ call.out.edge_index[2 * i] = <<edges[i][2], edges[i][1]>>
            /\ call.out.edge_attr[2 * i - 1] = call.out.edge_attr[2 * i]
  /\ (call.op = "aidx_to_GraphAction" /\ IsAction(call.out) /\ call.out.action = "SetEdgeAttr") =>
       <<call.out.source, call.out.target>> = data.edge_index[2 * call.arg.row + 1]
  /\ (call.op = "GraphAction_to_aidx" /\ call.arg.action = "SetEdgeAttr" /\ ~IsRaise(call.out)) =>
       \A i \in 1..Len(edges) :
         {call.arg.source, call.arg.target} = {edges[i][1], edges[i][2]} =>
           /\ call.out.row = i - 1
           /\ call.out.row < Len(edges)

\* C10 witness: GraphAction_to_aidx has returned row 1 for a SetEdgeAttr action on
\* the second edge of g, given with its nodes in the order opposite to g.edges.
C10_Witness ==
  /\ call.op = "GraphAction_to_aidx"
  /\ call.arg.action = "SetEdgeAttr"
  /\ Len(NxEdges(g)) >= 2
  /\ <<call.arg.target, call.arg.source>> = NxEdges(g)[2]
  /\ ~IsRaise(call.out)
  /\ call.out.row = 1

\* the action with source and target exchanged
Reversed(a) == [a EXCEPT !.source = a.target, !.target = a.source]

\* the columns of index holding the nodes s and t in either order
ColumnsOf(index, s, t) == {i \in 1..Len(index) : {index[i][1], index[i][2]} = {s, t}}

\* GraphAction_to_aidx was called with AddEdge between two distinct non-adjacent nodes of g
EncodedNewEdge ==
  /\ call.op = "GraphAction_to_aidx"
  /\ call.arg.action = "AddEdge"
  /\ call.arg.source \in Nodes(g) /\ call.arg.target \in Nodes(g)
  /\ call.arg.source # call.arg.target
  /\ ~HasEdge(g, call.arg.source, call.arg.target)

\* C11: for two distinct non-adjacent nodes s and t, GraphAction_to_aidx returns for
\* AddEdge(s, t) the triple (ordinal of AddEdge, r, 0), where r is the one column of
\* the non-edge index that holds s and t, and it returns the same triple for AddEdge(t, s).
C11_AddEdgeOrientationIndependent ==
  EncodedNewEdge =>
    LET cols == ColumnsOf(data.non_edge_index, call.arg.source, call.arg.target)
    IN /\ Cardinality(cols) = 1
       /\ \A r \in cols :
            call.out = Aidx(IndexOf(ctx.action_type_order, "AddEdge"), r - 1, 0)
       /\ GraphAction_to_aidx(ctx, data, Reversed(call.arg)) = call.out

\* C11 witness: AddEdge(t, s) with t > s has been encoded to a row other than the
\* first, the row of the column (s, t).
C11_Witness ==
  /\ EncodedNewEdge
  /\ call.arg.source > call.arg.target
  /\ ~IsRaise(call.out)
  /\ call.out.row > 0
  /\ data.non_edge_index[call.out.row + 1] = <<call.arg.target, call.arg.source>>

\* the sum over the attributes of the length of their value lists
Cardinalities(values) ==
  LET RECURSIVE Sum(_)
      Sum(ks) == IF ks = {} THEN 0
                 ELSE LET k == CHOOSE x \in ks : TRUE IN Len(values[k]) + Sum(ks \ {k})
  IN Sum(DOMAIN values)

BitsIn(row, lo, hi) == {p \in lo..(hi - 1) : row[p + 1] = 1}

\* row has one bit per attribute of attrs, inside the attribute's slice, at the index
\* of the value that ad stores for it, and at the start of the slice when ad stores none
OneHotPerSlice(row, values, attrs, slice, ad) ==
  \A j \in 1..Len(attrs) :
    LET k == attrs[j]
        offset == IF k \in DOMAIN ad THEN IndexOf(values[k], ad[k]) ELSE 0
    IN /\ slice[j + 1] - slice[j] = Len(values[k])
       /\ offset < Len(values[k])
       /\ BitsIn(row, slice[j], slice[j + 1]) = {slice[j] + offset}

\* C13: for a graph with nodes, every node row of graph_to_Data has exactly one bit
\* set inside the slice of each atom attribute (the attributes in sorted name order),
\* at the index of the node's value in the attribute's value list and at offset 0 when
\* the node does not store the attribute; every edge feature row has likewise one bit
\* per bond attribute, at offset 0 when the edge stores no type.
C13_OneHotIncludesDefault ==
  LET edges == NxEdges(g) IN
  /\ \A j \in 1..(Len(ctx.atom_attrs) - 1) : StrLess(ctx.atom_attrs[j], ctx.atom_attrs[j + 1])
  /\ Len(ctx.atom_attr_slice) = Len(ctx.atom_attrs) + 1
  /\ Len(ctx.bond_attr_slice) = Len(ctx.bond_attrs) + 1
  /\ (DataBuilt /\ NumNodes(g) > 0) =>
       /\ \A i \in 1..NumNodes(g) :
            OneHotPerSlice(call.out.x[i], ctx.atom_attr_values, ctx.atom_attrs,
                           ctx.atom_attr_slice, g.nodes[i])
       /\ Len(call.out.edge_attr) = 2 * Len(edges)
       /\ \A r \in 1..Len(call.out.edge_attr) :
            LET e == edges[(r + 1) \div 2]
            IN OneHotPerSlice(call.out.edge_attr[r], ctx.bond_attr_values, ctx.bond_attrs,
                              ctx.bond_attr_slice, g.eattr[EdgeKey(e[1], e[2])])

\* C13 witness: graph_to_Data has built the rows of a graph in which a node stores a
\* charge other than the default and no other attribute besides its symbol, and an
\* edge stores no type: the edge's rows have their first bit set.
C13_Witness ==
  /\ DataBuilt
  /\ \E i \in 1..NumNodes(g) :
       /\ DOMAIN g.nodes[i] = {"v", "charge"}
       /\ call.out.x[i][1] = 0
  /\ \E e \in DOMAIN g.eattr : "type" \notin DOMAIN g.eattr[e]
  /\ call.out.edge_attr # << >>
  /\ call.out.edge_attr[1][1] = 1

\* how many columns of index are the pair (a, b)
Occurrences(index, a, b) == Cardinality({i \in 1..Len(index) : index[i] = <<a, b>>})

\* C14: in the Data of a graph on nodes 0..n-1, every unordered pair of distinct nodes
\* is either an edge, held once in each orientation by edge_index and not by
\* non_edge_index, or a non-edge, held exactly once in one orientation by
\* non_edge_index and not by edge_index; non_edge_index has n(n-1)/2 minus the
\* number of edges columns, and none of them is a self-pair.
C14_NonEdgeIndexIsComplement ==
  DataBuilt =>
    LET n == NumNodes(g)
        ei == call.out.edge_index
        ni == call.out.non_edge_index
    IN /\ \A u \in Nodes(g), w \in Nodes(g) :
            u < w =>
              IF HasEdge(g, u, w)
              THEN /\ Occurrences(ei, u, w) = 1 /\ Occurrences(ei, w, u) = 1
                   /\ Occurrences(ni, u, w) = 0 /\ Occurrences(ni, w, u) = 0
              ELSE /\ Occurrences(ei, u, w) = 0 /\ Occurrences(ei, w, u) = 0
                   /\ Occurrences(ni, u, w) + Occurrences(ni, w, u) = 1
       /\ Len(ni) = (n * (n - 1)) \div 2 - Cardinality(DOMAIN g.eattr)
       /\ Len(ei) = 2 * Cardinality(DOMAIN g.eattr)
       /\ \A i \in 1..Len(ni) :
            ni[i][1] # ni[i][2] /\ ni[i][1] \in Nodes(g) /\ ni[i][2] \in Nodes(g)
       /\ \A i \in 1..Len(ei) :
            ei[i][1] # ei[i][2] /\ ei[i][1] \in Nodes(g) /\ ei[i][2] \in Nodes(g)

\* C14 witness: graph_to_Data has built the indexes of a graph on three nodes or more
\* that has a pair of adjacent nodes and a pair of non-adjacent nodes.
C14_Witness ==
  /\ DataBuilt
  /\ NumNodes(g) >= 3
  /\ call.out.edge_index # << >>
  /\ call.out.non_edge_index # << >>
  /\ Len(call.out.non_edge_index) + Len(call.out.edge_index) \div 2
       = (NumNodes(g) * (NumNodes(g) - 1)) \div 2

CodecOps ==
  {"aidx_to_GraphAction", "GraphAction_to_aidx", "graph_to_Data", "mol_to_graph",
   "graph_to_mol", "is_sane"}

\* this step is a call of a codec method
CodecCall == call' # call /\ call'.op \in CodecOps

\* the result of the call is what the method gives on a context newly constructed
\* from the same atoms, for the same arguments
SameOnFreshContext ==
  LET fresh == MolBuildingEnvContext(ctx.atom_attr_values["v"])
      op == call'.op
      out == call'.out
  IN CASE op = "graph_to_Data" -> out = graph_to_Data(fresh, g)
       [] op = "GraphAction_to_aidx" -> out = GraphAction_to_aidx(fresh, data, call'.arg)
       [] op = "aidx_to_GraphAction" -> out = aidx_to_GraphAction(fresh, data, call'.arg)
       [] op = "mol_to_graph" -> out = mol_to_graph(fresh, call'.arg)
       [] op = "graph_to_mol" -> out = graph_to_mol(g, call'.arg.sanitize)
       [] op = "is_sane" -> out = is_sane(g, call'.arg.sanitize, call'.arg.smiles)

\* C15: a call of aidx_to_GraphAction, GraphAction_to_aidx, graph_to_Data,
\* mol_to_graph, graph_to_mol or is_sane leaves every table and sizing constant of the
\* context as it was, and leaves the graph and the molecule as they were; only
\* graph_to_Data yields a new tensor graph, the others leave the tensor graph as it
\* was; and the result is the one a newly constructed context gives for the same
\* arguments.
C15_CodecStateless ==
  [][CodecCall =>
       /\ ctx' = ctx
       /\ g' = g
       /\ mol' = mol
       /\ call'.op # "graph_to_Data" => data' = data
       /\ SameOnFreshContext]_vars

\* C15 witness: after a graph_to_Data call on a graph with nodes that lack attributes,
\* a second codec call has returned the result of a newly constructed context, on the
\* same graph and Data.
C15_Witness ==
  /\ HasData
  /\ data = graph_to_Data(MolBuildingEnvContext(ctx.atom_attr_values["v"]), g)
  /\ NumNodes(g) >= 2
  /\ call.op = "aidx_to_GraphAction"
  /\ call.from # NoneResult
  /\ call.out = aidx_to_GraphAction(MolBuildingEnvContext(ctx.atom_attr_values["v"]), data, call.arg)
  /\ IsAction(call.out)

\* an index triple within the ranges of its action type, for the graph g and its Data
InRangeTriple(idx) ==
  LET t == idx.type IN
  /\ t \in 0..(Len(ctx.action_type_order) - 1)
  /\ CASE ctx.action_type_order[t + 1] = "Stop" -> idx.row = 0 /\ idx.col = 0
       [] ctx.action_type_order[t + 1] = "AddNode" ->
            /\ idx.row \in 0..(NumNodes(g) - 1)
            /\ idx.col \in 0..(ctx.num_new_node_values - 1)
       [] ctx.action_type_order[t + 1] = "SetNodeAttr" ->
            /\ idx.row \in 0..(NumNodes(g) - 1)
            /\ idx.col \in 0..(ctx.num_node_attr_logits - 1)
       [] ctx.action_type_order[t + 1] = "AddEdge" ->
            /\ idx.row \in 0..(Len(data.non_edge_index) - 1)
            /\ idx.col = 0
       [] ctx.action_type_order[t + 1] = "SetEdgeAttr" ->
            /\ idx.row \in 0..(Len(data.edge_index) \div 2 - 1)
            /\ idx.col \in 0..(ctx.num_edge_attr_logits - 1)

\* the call encoded the GraphAction that aidx_to_GraphAction returned for call.from
EncodedBack == call.op = "GraphAction_to_aidx" /\ call.from # NoneResult

\* C16: for every index triple in range - (Stop, 0, 0); (AddNode, r, c) with r below
\* the number of nodes and c below num_new_node_values; (SetNodeAttr, r, c) with c
\* below num_node_attr_logits; (AddEdge, r, 0) with r below the number of non-edge
\* columns; (SetEdgeAttr, r, c) with r below the number of edges and c below
\* num_edge_attr_logits - aidx_to_GraphAction returns a GraphAction and
\* GraphAction_to_aidx of that GraphAction returns the triple.
C16_IndexRoundTrip ==
  /\ (call.op = "aidx_to_GraphAction" /\ call.from = NoneResult /\ InRangeTriple(call.arg)) =>
       IsAction(call.out)
  /\ (EncodedBack /\ InRangeTriple(call.from)) => call.out = call.from

\* C16 witness: a SetEdgeAttr triple with a row and a column other than 0 has been
\* decoded and encoded back to itself.
C16_Witness ==
  /\ EncodedBack
  /\ InRangeTriple(call.from)
  /\ call.from.type = IndexOf(ctx.action_type_order, "SetEdgeAttr")
  /\ call.from.row > 0 /\ call.from.col > 0
  /\ call.out = call.from

\* GraphAction_to_aidx was called with an AddEdge action whose nodes are in no column
\* of a non-empty non-edge index, in either order
EncodedUnmatchedAddEdge ==
  /\ call.op = "GraphAction_to_aidx"
  /\ call.arg.action = "AddEdge"
  /\ data.non_edge_index # << >>
  /\ \A i \in 1..Len(data.non_edge_index) :
       /\ data.non_edge_index[i] # <<call.arg.source, call.arg.target>>
       /\ data.non_edge_index[i] # <<call.arg.target, call.arg.source>>

\* GraphAction_to_aidx was called with a SetEdgeAttr action of a listed bond attribute
\* value whose (source, target) is no column of a non-empty edge index
EncodedUnmatchedSetEdgeAttr ==
  /\ call.op = "GraphAction_to_aidx"
  /\ call.arg.action = "SetEdgeAttr"
  /\ data.edge_index # << >>
  /\ \A i \in 1..Len(data.edge_index) :
       data.edge_index[i] # <<call.arg.source, call.arg.target>>
  /\ call.arg.attr \in DOMAIN ctx.bond_attr_values
  /\ Contains(ctx.bond_attr_values[call.arg.attr], call.arg.value)

\* C17: with a non-empty non-edge index, GraphAction_to_aidx of an AddEdge action
\* whose nodes match no column in either order raises nothing and returns row 0; with
\* a non-empty edge index, GraphAction_to_aidx of a SetEdgeAttr action whose (source,
\* target) matches no column raises nothing and returns row 0.
C17_NoMatchGivesRowZero ==
  /\ EncodedUnmatchedAddEdge =>
       call.out = Aidx(IndexOf(ctx.action_type_order, "AddEdge"), 0, 0)
  /\ EncodedUnmatchedSetEdgeAttr =>
       /\ ~IsRaise(call.out)
       /\ call.out.type = IndexOf(ctx.action_type_order, "SetEdgeAttr")
       /\ call.out.row = 0

\* C17 witness: on a graph with an edge and a non-edge, AddEdge between the two
\* adjacent nodes has been encoded to row 0, the row of another pair.
C17_Witness ==
  /\ EncodedUnmatchedAddEdge
  /\ HasEdge(g, call.arg.source, call.arg.target)
  /\ call.out = Aidx(IndexOf(ctx.action_type_order, "AddEdge"), 0, 0)

\* every value of keys at a position p >= 1 of its list has the column
\* logit_slice[k] + p - 1, a column of map, and map holds (k, value) there
SliceAgreesWithMap(values, keys, logit_slice, map, num_logits) ==
  /\ num_logits = Len(map)
  /\ \A k \in keys :
       \A p \in 1..(Len(values[k]) - 1) :
         LET col == logit_slice[k] + p - 1
         IN /\ col \in 0..(num_logits - 1)
            /\ map[col + 1] = <<k, values[k][p + 1]>>
  /\ \A i \in 1..Len(map), j \in 1..Len(map) : map[i] = map[j] => i = j

\* C18: for every atom attribute k other than v and every value w at position p >= 1
\* of its list, the column atom_attr_logit_slice[k] + p - 1 is at least 0 and below
\* num_node_attr_logits and atom_attr_logit_map holds (k, w) there; the same holds for
\* the bond attributes with bond_attr_logit_slice, bond_attr_logit_map and
\* num_edge_attr_logits; distinct pairs have distinct columns, and the column
\* GraphAction_to_aidx returns for such a pair (a value other than the default) is a
\* column where the map holds it.
C18_LogitSliceAgreesWithMap ==
  /\ SliceAgreesWithMap(ctx.atom_attr_values, (DOMAIN ctx.atom_attr_values) \ {"v"},
                        ctx.atom_attr_logit_slice, ctx.atom_attr_logit_map,
                        ctx.num_node_attr_logits)
  /\ SliceAgreesWithMap(ctx.bond_attr_values, DOMAIN ctx.bond_attr_values,
                        ctx.bond_attr_logit_slice, ctx.bond_attr_logit_map,
                        ctx.num_edge_attr_logits)
  /\ (call.op = "GraphAction_to_aidx" /\ ~IsRaise(call.out)) =>
       /\ (/\ call.arg.action = "SetNodeAttr"
           /\ call.arg.attr # "v"
           /\ call.arg.value # ctx.atom_attr_defaults[call.arg.attr]) =>
            /\ call.out.col \in 0..(ctx.num_node_attr_logits - 1)
            /\ ctx.atom_attr_logit_map[call.out.col + 1] = <<call.arg.attr, call.arg.value>>
       /\ (/\ call.arg.action = "SetEdgeAttr"
           /\ call.arg.value # ctx.bond_attr_defaults[call.arg.attr]) =>
            /\ call.out.col \in 0..(ctx.num_edge_attr_logits - 1)
            /\ ctx.bond_attr_logit_map[call.out.col + 1] = <<call.arg.attr, call.arg.value>>

\* C18 witness: GraphAction_to_aidx has returned for the last value of expl_H, an
\* attribute in the middle of the sorted order, the column logit_slice + position - 1,
\* where the map holds that pair.
C18_Witness ==
  /\ call.op = "GraphAction_to_aidx"
  /\ call.arg.action = "SetNodeAttr"
  /\ call.arg.attr = "expl_H" /\ call.arg.value = "3"
  /\ ~IsRaise(call.out)
  /\ call.out.col = ctx.atom_attr_logit_slice["expl_H"] + 3 - 1
  /\ ctx.atom_attr_logit_map[call.out.col + 1] = <<"expl_H", "3">>

\* the Trainer has been constructed in this run of train
TrainerBuilt == run.trainer # NoneResult

\* the step has been reached in this run of train
Logged(step) == \E i \in 1..Len(run.log) : run.log[i] = step

\* the path s ends with the five characters ".ckpt"
HasCkptExtension(s) ==
  /\ Len(s) >= 5
  /\ s[Len(s) - 4] = "." /\ s[Len(s) - 3] = "c" /\ s[Len(s) - 2] = "k"
  /\ s[Len(s) - 1] = "p" /\ s[Len(s)] = "t"

\* C19: the arguments train hands to the Trainer hold none of the keys monitor,
\* save_top_k, mode, every_n_train_steps and save_last; their callbacks entry is a
\* list of one ModelCheckpoint callback, made with exactly the values train was called
\* with for those five keys, and holds no EarlyStopping callback; every other key
\* train was called with is handed on with its value, except that
\* resume_from_checkpoint is None when it was not None and did not end with ".ckpt".
C19_CheckpointArgsRelocated ==
  /\ TrainerBuilt => Logged("Trainer") /\ run.trainer.kwargs = run.pl_trainer_args
  /\ Logged("Trainer") =>
    LET kwargs == run.pl_trainer_args
        passed == (DOMAIN run.args) \ (CheckpointKeys \cup {"callbacks", "resume_from_checkpoint"})
    IN /\ (DOMAIN kwargs) \cap CheckpointKeys = {}
       /\ DOMAIN kwargs = ((DOMAIN run.args) \ CheckpointKeys) \cup {"callbacks"}
       /\ Len(kwargs["callbacks"]) = 1
       /\ kwargs["callbacks"][1].class = "ModelCheckpoint"
       /\ DOMAIN kwargs["callbacks"][1].kwargs = CheckpointKeys
       /\ \A k \in CheckpointKeys : kwargs["callbacks"][1].kwargs[k] = run.args[k]
       /\ \A k \in passed : kwargs[k] = run.args[k]
       /\ kwargs["resume_from_checkpoint"] =
            (IF run.args["resume_from_checkpoint"] = NoneResult
             THEN NoneResult
             ELSE IF HasCkptExtension(run.args["resume_from_checkpoint"].value)
             THEN run.args["resume_from_checkpoint"]
             ELSE NoneResult)

\* C19 witness: the Trainer has been constructed in a run called with a checkpoint
\* path that does not end with ".ckpt", a monitor and a callbacks entry of the caller.
C19_Witness ==
  /\ TrainerBuilt
  /\ run.args["resume_from_checkpoint"] = Value(<<"m", ".", "p", "t">>)
  /\ run.trainer.kwargs["resume_from_checkpoint"] = NoneResult
  /\ run.args["monitor"] = Value("val_loss")
  /\ "callbacks" \in DOMAIN run.args
  /\ run.trainer.kwargs["max_epochs"] = Value(3)

\* the calls of a run of train in their order
TrainOrder == <<"rewrite", "Trainer", "get_data_and_model_modules", "fit">>

\* C20: in a run of train the argument rewrite comes first, then the construction of
\* the Trainer, then get_data_and_model_modules, then fit; fit is called only when
\* the Trainer was constructed and get_data_and_model_modules returned, and with the
\* model module and the data module it returned; on the abstract pipeline
\* get_data_and_model_modules raises NotImplementedError, train raises that error and
\* fit is not called.
C20_TrainOrder ==
  /\ Len(run.log) <= Len(TrainOrder)
  /\ run.log = SubSeq(TrainOrder, 1, Len(run.log))
  /\ Logged("Trainer") =>
       /\ (DOMAIN run.pl_trainer_args) \cap CheckpointKeys = {}
       /\ "callbacks" \in DOMAIN run.pl_trainer_args
  /\ TrainerBuilt => run.trainer.kwargs = run.pl_trainer_args
  /\ Logged("get_data_and_model_modules") => TrainerBuilt
  /\ Logged("fit") =>
       /\ TrainerBuilt
       /\ run.modules # NoneResult
       /\ run.fit = [model |-> run.modules[2], datamodule |-> run.modules[1]]
       /\ run.fit.model \in {"model_module_1"}
       /\ run.fit.datamodule \in {"data_module_1", "data_module_2"}
  /\ ~Logged("fit") => run.fit = NoneResult
  /\ (run.pc = "raised" /\ run.log[Len(run.log)] # "fit") => ~Logged("fit")
  /\ run.pipeline = "abstract" =>
       /\ ~Logged("fit")
       /\ run.pc # "done"
       /\ Logged("get_data_and_model_modules") =>
            run.pc = "raised" /\ run.raised = Raise("NotImplementedError")

\* C20 witness: on a subclass the four steps have run in order and fit has returned.
C20_Witness ==
  /\ run.pipeline = "subclass"
  /\ run.pc = "done"
  /\ run.log = TrainOrder
  /\ run.fit = [model |-> "model_module_1", datamodule |-> "data_module_2"]

\* C20 witness on the abstract pipeline: train has raised NotImplementedError after
\* the Trainer was constructed, and fit has not been called.
C20_AbstractRaised ==
  /\ run.pipeline = "abstract"
  /\ run.pc = "raised"
  /\ run.raised = Raise("NotImplementedError")
  /\ run.log = <<"rewrite", "Trainer", "get_data_and_model_modules">>

\* the type strings of the four supported classes
TypeName == [str |-> "string", int |-> "integer", float |-> "number", bool |-> "boolean"]

IsSupportedClass(t) == "class" \in DOMAIN t /\ t.class \in DOMAIN TypeName

IsUnion(t) == "origin" \in DOMAIN t /\ t.origin = "Union"

\* the positions of the supported members of a Union
SupportedMembers(t) == {i \in 1..Len(t.args) : IsSupportedClass(t.args[i])}

\* a type that extract_fields_from_class is to describe: a supported class, or a
\* Union with exactly one supported member
Describable(t) ==
  \/ IsSupportedClass(t)
  \/ IsUnion(t) /\ Cardinality(SupportedMembers(t)) = 1

\* the type string of a describable type
Described(t) ==
  IF IsSupportedClass(t) THEN TypeName[t.class]
  ELSE TypeName[t.args[CHOOSE i \in SupportedMembers(t) : TRUE].class]

\* extract_fields_from_class was called on a dataclass whose fields all have a help text
Extracted ==
  /\ call.op = "extract_fields_from_class"
  /\ \A i \in 1..Len(call.arg.fields) : "help" \in DOMAIN call.arg.fields[i].metadata

\* C21: on a dataclass whose fields are all of type str, int, float or bool or a
\* Union with exactly one such member, extract_fields_from_class returns a dict with
\* one entry per field, holding the field's description, the type string (string,
\* integer, number, boolean; for a Union that of its one supported member) and a
\* default exactly when the field declares a default value, a None default as the
\* string "none"; when some field has a Union with no or with more than one supported
\* member, or any other type, it raises ValueError and returns no dict.
C21_FieldsDescribed ==
  Extracted =>
    LET fs == call.arg.fields IN
    IF \A i \in 1..Len(fs) : Describable(fs[i].type)
    THEN /\ DOMAIN call.out = {"ret"}
         /\ DOMAIN call.out.ret = {fs[i].name : i \in 1..Len(fs)}
         /\ \A i \in 1..Len(fs) :
              LET entry == call.out.ret[fs[i].name]
              IN /\ entry.description = fs[i].metadata["help"]
                 /\ entry.type = Described(fs[i].type)
                 /\ ("default" \in DOMAIN entry) <=> (fs[i].default # MISSING)
                 /\ DOMAIN entry \subseteq {"type", "description", "default"}
                 /\ fs[i].default # MISSING =>
                      entry.default = (IF fs[i].default = NoneResult THEN Value("none")
                                       ELSE fs[i].default)
    ELSE call.out = Raise("ValueError")

\* C21 witness: a dataclass of two fields has been described: a field of type
\* Union[int, None] with default None, reported as integer with default "none", and
\* a field without a default.
C21_Witness ==
  /\ Extracted
  /\ Len(call.arg.fields) = 2
  /\ call.arg.fields[1].type = Subscripted("Union", <<Class("int"), Class("NoneType")>>)
  /\ call.arg.fields[1].default = NoneResult
  /\ call.arg.fields[2].default = MISSING
  /\ DOMAIN call.out = {"ret"}
  /\ call.out.ret[call.arg.fields[1].name] =
       [type |-> "integer", description |-> "Accelerator type.", default |-> Value("none")]
  /\ "default" \notin DOMAIN call.out.ret[call.arg.fields[2].name]

\* C21 witness of the error: the call on a dataclass with a field of type
\* Union[int, str] after a describable field has raised ValueError.
C21_Raised ==
  /\ Extracted
  /\ Len(call.arg.fields) = 2
  /\ Describable(call.arg.fields[1].type)
  /\ call.arg.fields[2].type = Subscripted("Union", <<Class("int"), Class("str")>>)
  /\ call.out = Raise("ValueError")

====
